---- MODULE Spec2Model ----
(***************************************************************************)
(* Model of the HwObs-LtOss migration engine.                              *)
(*                                                                         *)
(*   Spec      the scheduler: MigrateManager.start_migration (multi-bucket *)
(*             mode), its worker threads, the SIGINT/SIGTERM handler and   *)
(*             the MigrateLogger counters (src/core/migrate_manager.py,    *)
(*             src/log/migrate_logger.py).                                 *)
(*   SpecTask  one MigrateTask.migrate_file / migrate_file_stream call     *)
(*             against a source store and a target store                   *)
(*             (src/core/migrate_task.py, src/core/oss_client.py).         *)
(*   SpecRerun      a second run of the same transfer after the first.     *)
(*   SpecSingle     the scheduler in single-bucket mode, with an item cap. *)
(*   SpecDiscovery  discovery and enqueueing with three bucket mappings.   *)
(*   SpecCollect    the round-robin collection loop over three buckets.    *)
(*   SpecDispatch   the choice between the plain and the streaming path.   *)
(*   SpecFair       Spec with every thread of the process scheduled.       *)
(*   SpecTargetPath the target path computed by the calls of one task.     *)
(*   SpecListing    list_objects over keys and excluded suffixes as text.  *)
(*   SpecPages      list_objects over a bucket served in pages.            *)
(*   SpecRoundTrip  the failed list written by the report and read back.   *)
(*   SpecLoad       load_failed_list over the files it can find.           *)
(*   SpecLocks      the threads of a run as sequences of lock operations.  *)
(***************************************************************************)
EXTENDS Integers, Sequences, FiniteSets, TLC

(***************************************************************************)
(* Bounds of the model.                                                    *)
(***************************************************************************)
\* objects the listings of one run return at most, all buckets together
MaxObjs == 2
\* largest configured retry.max_attempts explored
MaxRetry == 2
\* largest retry.max_attempts explored for one transfer in detail
MaxRetryTask == 3
\* objects one listing returns at most where the collection loop is explored alone
MaxListed == 3
\* largest item cap explored
MaxLimit == 4
\* characters of a key, a prefix or a suffix at most
MaxText == 3
\* characters of a listed key or an excluded suffix at most
MaxKeyText == 2
\* objects of a bucket served in pages at most
MaxStored == 5
\* max_keys of a listObjects call: 1000 in the code
MaxKeys == 2
\* characters of a failed object's key or error text at most
MaxFileText == 2
\* characters of a failed-list file read on its own at most
MaxFile == 4
\* retry_config.get('interval', 5)
DefaultRetryInterval == 5

Workers == {"w1", "w2"}
\* source bucket names; three distinct ones where the collection loop is
\* explored alone
BucketNames == <<"b1", "b2", "b3">>
\* the configured lists of bucket mappings explored, each mapping given by its
\* source bucket (two mappings may name the same source bucket)
MappingConfigs == {<<"b1", "b2">>, <<"b1", "b1">>}
None == [sentinel |-> TRUE]

VARIABLES
    \* ---- configuration
    bucket_mappings,        \* config_loader.get_bucket_mappings(): source bucket of each mapping
    max_retry,              \* MigrateTask.max_retry
    streaming_threshold,    \* concurrency.streaming_threshold, NotConfigured when absent
    chunk_size,             \* concurrency.chunk_size
    file_size,              \* file_info.get('size', 0) of the task transferred in detail
    \* ---- MigrateManager
    mpc,                    \* position of the main thread in start_migration
    hpc,                    \* position of _signal_handler ("idle" when not running)
    exit_flag,
    file_limit,             \* item cap set by the caller, NoLimit when None
    task_queue,             \* queue.Queue contents, head first
    unfinished_tasks,       \* queue.Queue.unfinished_tasks (put: +1, task_done: -1)
    total_files,
    processed_files,
    bucket_total_files,     \* dict: source bucket -> count
    bucket_processed_files, \* dict: source bucket -> count
    \* ---- discovery (process_bucket_and_generate threads, locals of start_migration)
    lpc,                    \* position of each mapping's discovery thread
    file_count,             \* file_count of each mapping's discovery thread
    bucket_file_generators, \* dict in insertion order: <<[bucket, m, n]>>
    all_files_to_migrate,   \* the collected tasks, in enqueue order
    enq,                    \* tasks of all_files_to_migrate already put on the queue
    \* ---- workers
    wpc,                    \* position of each worker thread in worker()
    wtask,                  \* task_info the worker holds
    attempt,                \* migrate_file local
    success,                \* migrate_file local
    error_msg,              \* migrate_file local
    \* ---- one transfer in detail: the MigrateTask, its stores and what it did
    streaming,              \* the worker calls migrate_file_stream, not migrate_file
    retry_interval,         \* MigrateTask.retry_interval
    in_upload_file,         \* the call of upload_file is running (not upload_file_stream)
    target,                 \* ETag header the target store returns for the target key
    target0,                \* target when the transfer began
    put_requests,           \* PUT requests sent to the target
    source_gets,            \* get_object / get_object_stream calls on the source
    stream_reads,           \* file_stream.read() calls
    results,                \* per attempt: [ok, err]
    sleeps,                 \* durations of the time.sleep calls, in order
    \* ---- MigrateLogger singleton
    success_files,
    failed_files,
    failed_list,            \* the [obs_path, error_msg] entries, in order
    bucket_stats,           \* bucket -> [total, success, failed]
    log_entries,            \* migrate_*.jsonl: <<bucket, key>> -> statuses written, in order
    logger_total_files,
    \* ---- history
    get_count,              \* task -> number of times queue.get returned it
    late_gets,              \* tasks queue.get returned while the exit flag was set
    \* ---- object keys as text: a sequence of characters
    target_prefix,          \* OSSClient.target_prefix
    object_key,             \* the key of the object a task transfers
    oss_paths,              \* the values get_target_path returned, in order
    exclude_suffixes,       \* OBSClient.exclude_suffixes, a list of texts
    contents,               \* the keys of resp.body.contents, in order
    list_pos,               \* how many of them list_objects has gone through
    obs_files,              \* the keys list_objects has yielded, in order
    \* ---- a source bucket served in pages
    stored,                 \* the keys of the bucket, in the order the store lists them
    marker,                 \* list_objects' marker
    list_calls,             \* the markers of the listObjects calls, in order
    resp,                   \* the body of the last response, without its contents
    \* ---- the failed list on disk
    failed_file,            \* failed_<date>.txt: its characters, or NoFile
    loaded,                 \* what load_failed_list returned, or that it raised
    report,                 \* the numbers copied into the report dict, or NoReport
    \* ---- the locks
    lock_owner,             \* lock -> the thread that holds it, or NoOwner
    tpc                     \* thread -> its position in its sequence of lock operations

vars == <<bucket_mappings, max_retry, streaming_threshold, chunk_size, file_size, mpc, hpc, exit_flag, file_limit, task_queue,
          unfinished_tasks, total_files, processed_files, bucket_total_files,
          bucket_processed_files, lpc, file_count, bucket_file_generators,
          all_files_to_migrate, enq, wpc, wtask, attempt, success, error_msg,
          streaming, retry_interval, in_upload_file, target, target0, put_requests,
          source_gets, stream_reads, results, sleeps, success_files, failed_files, failed_list, bucket_stats, log_entries,
          logger_total_files, get_count, late_gets, target_prefix, object_key, oss_paths,
          exclude_suffixes, contents, list_pos, obs_files, stored, marker, list_calls, resp,
          failed_file, loaded, report, lock_owner, tpc>>

cfgVars == <<bucket_mappings, max_retry, streaming_threshold, chunk_size, file_size>>
discVars == <<lpc, file_count, bucket_file_generators, all_files_to_migrate, enq>>
progressVars == <<total_files, processed_files, bucket_total_files, bucket_processed_files>>
workerVars == <<wpc, wtask, attempt, success, error_msg>>
taskVars == <<streaming, retry_interval, in_upload_file, target, target0, put_requests,
              source_gets, stream_reads, results, sleeps>>
histVars == <<get_count, late_gets>>
pageVars == <<stored, marker, list_calls, resp>>
fileVars == <<failed_file, loaded, report>>
lockVars == <<lock_owner, tpc>>
textVars == <<target_prefix, object_key, oss_paths, exclude_suffixes, contents, list_pos,
              obs_files, pageVars, fileVars, lockVars>>
loggerVars == <<success_files, failed_files, failed_list, bucket_stats, log_entries,
               logger_total_files>>

Keys == 1..MaxObjs
Mappings == DOMAIN bucket_mappings
\* every task the run can create: object `key` listed for mapping m, m = 0 for
\* the default mapping of the single-bucket mode
AllTasks == [m : (IF bucket_mappings = << >> THEN {0} ELSE Mappings), key : Keys]
NoTask == [m |-> 0, key |-> 0]
\* os.path.exists(failed_file) is false
NoFile == [exists |-> FALSE]
\* load_failed_list has not been called
NotLoaded == [called |-> FALSE]
\* generate_daily_report has not been called
NoReport == [generated |-> FALSE]
\* marker = None
NoMarker == [marker |-> FALSE]
\* an attribute the response body does not have
NoAttr == [attr |-> FALSE]
\* no listObjects call has returned
NoResponse == [is_truncated |-> FALSE, next_marker |-> NoAttr, nextMarker |-> NoAttr]

\* obs_client.bucket_name of the global source configuration
DefaultBucket == BucketNames[1]

\* the source buckets of the run
Buckets ==
    IF bucket_mappings = << >> THEN {DefaultBucket}
    ELSE {bucket_mappings[m] : m \in Mappings}

\* bucket_mapping.get('source_bucket', bucket_mapping.get('obs_bucket'))
BucketOf(task) == IF task.m = 0 THEN DefaultBucket ELSE bucket_mappings[task.m]

\* the task's mapping has the keys 'source_bucket' and 'source_prefix'; the
\* default mapping has 'obs_bucket' and 'obs_prefix' instead
HasSourceKeys(task) == task.m # 0

\* dict.get(key, 0)
DictGet(d, k) == IF k \in DOMAIN d THEN d[k] ELSE 0
\* d[k] = v
DictSet(d, k, v) == [x \in DOMAIN d \cup {k} |-> IF x = k THEN v ELSE d[x]]

EmptyDict == [x \in {} |-> 0]
\* error_msg = ""
NoError == [kind |-> "", attempt |-> 0]
\* the error text of a failure; the attempt it comes from is part of it, so that
\* the texts of different attempts can be told apart
Err(kind, n) == [kind |-> kind, attempt |-> n]
\* the descriptor's etag, and the ETag of any other content
SrcEtag == "e1"
OtherEtag == "e2"
\* the target has no object at the key
Absent == [present |-> FALSE, quoted |-> FALSE, hash |-> ""]
\* ETag headers of an object at the key
EtagHeaders == [present : {TRUE}, quoted : BOOLEAN, hash : {SrcEtag, OtherEtag}]
NoLimit == -1
\* 1 MB in bytes
MB == 1024 * 1024
\* the key 'streaming_threshold' is absent from the concurrency configuration
NotConfigured == -1
\* concurrency_config.get('chunk_size', 5 * 1024 * 1024)
DefaultChunkSize == 5 * MB
\* concurrency_config.get('streaming_threshold', 5 * 1024 * 1024 * 10)
DefaultStreamingThreshold == 5 * 1024 * 1024 * 10

\* a comparison that streams an object of exactly the threshold size too
ShouldUseStreamingInclusive(size) ==
    size >= (IF streaming_threshold = NotConfigured
             THEN DefaultStreamingThreshold ELSE streaming_threshold)

\* MigrateTask.should_use_streaming
ShouldUseStreaming(size) ==
    size > (IF streaming_threshold = NotConfigured
            THEN DefaultStreamingThreshold ELSE streaming_threshold)

(***************************************************************************)
(* Initial state: MigrateManager.__init__ and the MigrateLogger singleton. *)
(***************************************************************************)
InitManager ==
    /\ mpc = "start"
    /\ hpc = "idle"
    /\ exit_flag = FALSE
    /\ task_queue = << >>
    /\ unfinished_tasks = 0
    /\ total_files = 0
    /\ processed_files = 0
    /\ bucket_total_files = EmptyDict
    /\ bucket_processed_files = EmptyDict
    /\ lpc = [m \in Mappings |-> "unstarted"]
    /\ file_count = [m \in Mappings |-> 0]
    /\ bucket_file_generators = << >>
    /\ all_files_to_migrate = << >>
    /\ enq = 0
    /\ wpc = [w \in Workers |-> "unstarted"]
    /\ wtask = [w \in Workers |-> NoTask]
    /\ attempt = [w \in Workers |-> 0]
    /\ success = [w \in Workers |-> FALSE]
    /\ error_msg = [w \in Workers |-> NoError]
    /\ get_count = [t \in AllTasks |-> 0]
    /\ late_gets = {}

InitLogger ==
    /\ success_files = 0
    /\ failed_files = 0
    /\ failed_list = << >>
    /\ bucket_stats = [b \in Buckets |-> [total |-> 0, success |-> 0, failed |-> 0]]
    /\ log_entries = [bk \in Buckets \X Keys |-> << >>]

\* the scheduler's model names an object by a number: the text of keys,
\* prefixes and suffixes is not used
\* the locks of the engine: MigrateManager.progress_lock and console_lock,
\* MigrateLogger.lock and Logger.lock, all threading.Lock()
Locks == {"progress_lock", "console_lock", "migrate_logger_lock", "logger_lock"}
\* the threads of a run in multi-bucket mode
LockThreads == {"main", "monitor"} \cup Workers \cup {"d1", "d2"}
NoOwner == "nobody"
\* _signal_handler, which runs on the main thread in between two of its steps
HandlerFrame == "handler"

\* the locks are not looked at
InitNoLocks ==
    /\ lock_owner = [l \in Locks |-> NoOwner]
    /\ tpc = [t \in LockThreads \cup {HandlerFrame} |-> 0]

\* no listing is under way and no failed list is on disk
InitNoPages ==
    /\ InitNoLocks
    /\ failed_file = NoFile
    /\ loaded = NotLoaded
    /\ report = NoReport
    /\ stored = << >>
    /\ marker = NoMarker
    /\ list_calls = << >>
    /\ resp = NoResponse

InitNoText ==
    /\ InitNoPages
    /\ target_prefix = << >>
    /\ object_key = << >>
    /\ oss_paths = << >>
    /\ exclude_suffixes = << >>
    /\ contents = << >>
    /\ list_pos = 0
    /\ obs_files = << >>

\* the scheduler's model takes each attempt as one step: the detail of a
\* transfer is not used
InitNoDetail ==
    /\ streaming_threshold = NotConfigured
    /\ chunk_size = DefaultChunkSize
    /\ file_size = 0
    /\ streaming = FALSE
    /\ retry_interval = DefaultRetryInterval
    /\ in_upload_file = FALSE
    /\ target = Absent
    /\ target0 = Absent
    /\ put_requests = 0
    /\ source_gets = 0
    /\ stream_reads = 0
    /\ results = << >>
    /\ sleeps = << >>

Init ==
    /\ bucket_mappings \in MappingConfigs
    /\ max_retry = MaxRetry
    /\ file_limit = NoLimit
    /\ InitManager
    /\ InitLogger
    /\ logger_total_files = 0
    /\ InitNoDetail
    /\ InitNoText

(***************************************************************************)
(* Discovery: one process_bucket_and_generate thread per mapping.          *)
(***************************************************************************)
\* bucket_file_generators[source_bucket] = file_generator(): a dict keeps the
\* position of a key it already holds and replaces its value
GenStore(gens, b, m, n) ==
    IF \E i \in 1..Len(gens) : gens[i].bucket = b
    THEN [i \in 1..Len(gens) |->
            IF gens[i].bucket = b THEN [bucket |-> b, m |-> m, n |-> n] ELSE gens[i]]
    ELSE Append(gens, [bucket |-> b, m |-> m, n |-> n])

\* objects held by the stored generators
RECURSIVE Listed(_)
Listed(gens) == IF gens = << >> THEN 0 ELSE Head(gens).n + Listed(Tail(gens))

\* self.console_lock is free: no discovery thread is inside its with block
\* (the progress monitor, the other user of the lock, starts after discovery)
ConsoleLockFree == \A m \in Mappings : lpc[m] # "listing"

\* with self.console_lock: the thread has built its source client, takes the
\* lock and enters list_objects
BeginListing(m) ==
    /\ lpc[m] = "started"
    /\ ConsoleLockFree
    /\ lpc' = [lpc EXCEPT ![m] = "listing"]
    /\ UNCHANGED <<taskVars, cfgVars, textVars, mpc, hpc, exit_flag, task_queue, unfinished_tasks,
                   progressVars, file_limit, file_count, bucket_file_generators,
                   all_files_to_migrate, enq, workerVars, loggerVars, histVars>>

\* files = list(source_client.list_objects()) returns n objects with keys 1..n;
\* the generator is stored under the source bucket name
ListBucket(m) ==
    /\ lpc[m] = "listing"
    /\ \E n \in 0..MaxObjs :
          /\ file_count' = [file_count EXCEPT ![m] = n]
          /\ bucket_file_generators' =
                GenStore(bucket_file_generators, bucket_mappings[m], m, n)
          /\ Listed(bucket_file_generators') <= MaxObjs
    /\ lpc' = [lpc EXCEPT ![m] = "done"]
    /\ UNCHANGED <<taskVars, cfgVars, textVars, mpc, hpc, exit_flag, task_queue, unfinished_tasks,
                   progressVars, file_limit, all_files_to_migrate, enq, workerVars,
                   loggerVars, histVars>>

\* list_objects raises: the thread dies and stores no generator
ListBucketFails(m) ==
    /\ lpc[m] = "listing"
    /\ lpc' = [lpc EXCEPT ![m] = "failed"]
    /\ UNCHANGED <<taskVars, cfgVars, textVars, mpc, hpc, exit_flag, task_queue, unfinished_tasks,
                   progressVars, file_limit, file_count, bucket_file_generators,
                   all_files_to_migrate, enq, workerVars, loggerVars, histVars>>

SeqRemove(s, i) == [j \in 1..(Len(s) - 1) |-> IF j < i THEN s[j] ELSE s[j + 1]]

\* the collection loop with the index moved on after a generator is removed
RECURSIVE RoundRobinSkip(_, _, _, _, _)
RoundRobinSkip(buckets, bi, pos, acc, limit) ==
    IF ~((limit = NoLimit \/ Len(acc) < limit) /\ Len(buckets) > 0)
    THEN acc
    ELSE LET bi2 == IF bi >= Len(buckets) THEN 0 ELSE bi
             cur == buckets[bi2 + 1]
         IN  IF pos[cur.bucket] < cur.n
             THEN LET acc2 == Append(acc, [m |-> cur.m, key |-> pos[cur.bucket] + 1])
                  IN  IF limit # NoLimit /\ Len(acc2) >= limit
                      THEN acc2
                      ELSE RoundRobinSkip(buckets, (bi2 + 1) % Len(buckets),
                                          [pos EXCEPT ![cur.bucket] = @ + 1], acc2, limit)
             ELSE RoundRobinSkip(SeqRemove(buckets, bi2 + 1), bi2 + 1, pos, acc, limit)

\* the round-robin collection loop; bi is bucket_index (0-based), pos the number
\* of items each generator has yielded, acc is all_files_to_migrate
RECURSIVE RoundRobin(_, _, _, _, _)
RoundRobin(buckets, bi, pos, acc, limit) ==
    IF ~((limit = NoLimit \/ Len(acc) < limit) /\ Len(buckets) > 0)
    THEN acc
    ELSE LET bi2 == IF bi >= Len(buckets) THEN 0 ELSE bi
             cur == buckets[bi2 + 1]
         IN  IF pos[cur.bucket] < cur.n
             THEN LET acc2 == Append(acc, [m |-> cur.m, key |-> pos[cur.bucket] + 1])
                  IN  IF limit # NoLimit /\ Len(acc2) >= limit
                      THEN acc2
                      ELSE RoundRobin(buckets, (bi2 + 1) % Len(buckets),
                                      [pos EXCEPT ![cur.bucket] = @ + 1], acc2, limit)
             ELSE RoundRobin(SeqRemove(buckets, bi2 + 1), bi2, pos, acc, limit)

(***************************************************************************)
(* The main thread: start_migration.                                       *)
(***************************************************************************)
MainRuns == hpc = "idle"

\* reset the counters, start the worker threads and the discovery threads
StartMigration ==
    /\ MainRuns
    /\ mpc = "start"
    /\ processed_files' = 0
    /\ total_files' = 0
    /\ wpc' = [w \in Workers |-> "loop"]
    /\ lpc' = [m \in Mappings |-> "started"]
    /\ mpc' = IF bucket_mappings # << >> THEN "join_buckets" ELSE "list_single"
    /\ UNCHANGED <<taskVars, cfgVars, textVars, hpc, exit_flag, task_queue, unfinished_tasks,
                   bucket_total_files, bucket_processed_files, file_limit,
                   file_count, bucket_file_generators, all_files_to_migrate, enq, wtask, attempt,
                   success, error_msg, loggerVars, histVars>>

\* thread.join() of every discovery thread, then the round-robin collection.
\* The threads have ended and the generators are not used again: both are
\* left behind as joined and dropped
CollectFiles ==
    /\ MainRuns
    /\ mpc = "join_buckets"
    /\ \A m \in Mappings : lpc[m] \in {"done", "failed"}
    /\ all_files_to_migrate' =
          RoundRobin(bucket_file_generators, 0, [b \in Buckets |-> 0], << >>, file_limit)
    /\ lpc' = [m \in Mappings |-> "joined"]
    /\ file_count' = [m \in Mappings |-> 0]
    /\ bucket_file_generators' = << >>
    /\ enq' = 0
    /\ mpc' = "enqueue"
    /\ UNCHANGED <<taskVars, cfgVars, textVars, hpc, exit_flag, task_queue, unfinished_tasks,
                   progressVars, file_limit, workerVars, loggerVars, histVars>>

\* self.task_queue.put(file_info_with_mapping), one iteration of the for loop
EnqueueTask ==
    /\ MainRuns
    /\ mpc = "enqueue"
    /\ enq < Len(all_files_to_migrate)
    /\ task_queue' = Append(task_queue, all_files_to_migrate[enq + 1])
    /\ unfinished_tasks' = unfinished_tasks + 1
    /\ enq' = enq + 1
    /\ UNCHANGED <<taskVars, cfgVars, textVars, mpc, hpc, exit_flag, progressVars, file_limit, lpc,
                   file_count, bucket_file_generators, all_files_to_migrate, workerVars, loggerVars,
                   histVars>>

\* single-bucket mode: files = list(obs_client.list_objects()) returns n objects
\* and the totals are set to n; all_files_to_migrate stands for files
ListSingle ==
    /\ MainRuns
    /\ mpc = "list_single"
    /\ \E n \in 0..MaxObjs :
          /\ all_files_to_migrate' = [i \in 1..n |-> [m |-> 0, key |-> i]]
          /\ total_files' = n
          /\ logger_total_files' = n
          /\ mpc' = IF n = 0 THEN "check" ELSE "enqueue_single"
    /\ enq' = 0
    /\ UNCHANGED <<taskVars, cfgVars, textVars, hpc, exit_flag, task_queue, unfinished_tasks,
                   processed_files, bucket_total_files, bucket_processed_files, file_limit,
                   lpc, file_count, bucket_file_generators, workerVars, success_files,
                   failed_files, failed_list, bucket_stats, log_entries, histVars>>

\* single-bucket mode: list_objects raises and start_migration raises it again
ListSingleFails ==
    /\ MainRuns
    /\ mpc = "list_single"
    /\ mpc' = "raised"
    /\ UNCHANGED <<taskVars, cfgVars, textVars, hpc, exit_flag, task_queue, unfinished_tasks,
                   progressVars, file_limit, discVars, workerVars, loggerVars, histVars>>

\* single-bucket mode: self.task_queue.put(task_info), one iteration of the
\* for loop over files
EnqueueSingle ==
    /\ MainRuns
    /\ mpc = "enqueue_single"
    /\ task_queue' = Append(task_queue, all_files_to_migrate[enq + 1])
    /\ unfinished_tasks' = unfinished_tasks + 1
    /\ enq' = enq + 1
    /\ mpc' = IF enq + 1 = Len(all_files_to_migrate) THEN "check" ELSE "enqueue_single"
    /\ UNCHANGED <<taskVars, cfgVars, textVars, hpc, exit_flag, progressVars, file_limit, lpc,
                   file_count, bucket_file_generators, all_files_to_migrate, workerVars,
                   loggerVars, histVars>>

\* bucket_file_counts as the for loop has built it
BucketFileCount(b) ==
    Cardinality({i \in 1..Len(all_files_to_migrate) :
                    BucketOf(all_files_to_migrate[i]) = b})

CountedBuckets == {b \in Buckets : BucketFileCount(b) > 0}

\* with self.progress_lock: total_files, update_total_files and the per-bucket totals
SetTotals ==
    /\ MainRuns
    /\ mpc = "enqueue"
    /\ enq = Len(all_files_to_migrate)
    /\ total_files' = Len(all_files_to_migrate)
    /\ logger_total_files' = Len(all_files_to_migrate)
    /\ LET fresh == CountedBuckets \ DOMAIN bucket_total_files
       IN  /\ bucket_total_files' =
                 [b \in DOMAIN bucket_total_files \cup CountedBuckets |->
                     DictGet(bucket_total_files, b) + BucketFileCount(b)]
           /\ bucket_processed_files' =
                 [b \in DOMAIN bucket_processed_files \cup fresh |->
                     IF b \in fresh THEN 0 ELSE bucket_processed_files[b]]
    /\ mpc' = "check"
    /\ UNCHANGED <<taskVars, cfgVars, textVars, hpc, exit_flag, task_queue, unfinished_tasks,
                   processed_files, file_limit, discVars, workerVars, success_files,
                   failed_files, failed_list, bucket_stats, log_entries, histVars>>

\* if self.total_files == 0: return
ReturnNoFiles ==
    /\ MainRuns
    /\ mpc = "check"
    /\ total_files = 0
    /\ mpc' = "returned"
    /\ UNCHANGED <<taskVars, cfgVars, textVars, hpc, exit_flag, task_queue, unfinished_tasks,
                   progressVars, file_limit, discVars, workerVars, loggerVars, histVars>>

StartWait ==
    /\ MainRuns
    /\ mpc = "check"
    /\ total_files # 0
    /\ mpc' = "wait"
    /\ UNCHANGED <<taskVars, cfgVars, textVars, hpc, exit_flag, task_queue, unfinished_tasks,
                   progressVars, file_limit, discVars, workerVars, loggerVars, histVars>>

\* the wait loop ends when task_queue.join() has returned or the exit flag is
\* set; then one None per worker is put on the queue
StopWorkers ==
    /\ MainRuns
    /\ mpc = "wait"
    /\ unfinished_tasks = 0 \/ exit_flag
    /\ task_queue' = task_queue \o [i \in 1..Cardinality(Workers) |-> None]
    /\ unfinished_tasks' = unfinished_tasks + Cardinality(Workers)
    /\ mpc' = "join"
    /\ UNCHANGED <<taskVars, cfgVars, textVars, hpc, exit_flag, progressVars, file_limit, discVars,
                   workerVars, loggerVars, histVars>>

\* a worker that is inside a transfer can outlast thread.join(timeout=5)
InTransfer(w) == wpc[w] = "migrate"

\* thread.join(timeout=5) for every worker, then the final progress line
JoinWorkers ==
    /\ MainRuns
    /\ mpc = "join"
    /\ \A w \in Workers : wpc[w] = "exited" \/ InTransfer(w)
    /\ mpc' = "report"
    /\ UNCHANGED <<taskVars, cfgVars, textVars, hpc, exit_flag, task_queue, unfinished_tasks,
                   progressVars, file_limit, discVars, workerVars, loggerVars, histVars>>

\* the worker's non-termination has been reported: after thread.join(timeout=5)
\* start_migration has no statement that looks at the thread again
AnomalyReported(w) == FALSE

\* report = {...} in generate_daily_report: total_files, success_files and
\* failed_files are copied as numbers; "failed_list" is self.failed_list itself
\* and the values of dict(self.bucket_stats) are the logger's own dicts
ReportDict ==
    [generated |-> TRUE, total_files |-> logger_total_files,
     success_files |-> success_files, failed_files |-> failed_files]

\* self.generate_report()
GenerateReport ==
    /\ MainRuns
    /\ mpc = "report"
    /\ report' = ReportDict
    /\ mpc' = "done"
    /\ UNCHANGED <<taskVars, cfgVars, target_prefix, object_key, oss_paths, exclude_suffixes,
                   contents, list_pos, obs_files, pageVars, failed_file, loaded, lockVars,
                   hpc, exit_flag, task_queue, unfinished_tasks,
                   progressVars, file_limit, discVars, workerVars, loggerVars, histVars>>

\* start_migration has returned: main() calls sys.exit, and the process ends
\* with whatever its daemon threads were doing
ProcessExit ==
    /\ MainRuns
    /\ mpc \in {"done", "returned", "raised"}
    /\ mpc' = "exit"
    /\ UNCHANGED <<taskVars, cfgVars, textVars, hpc, exit_flag, task_queue, unfinished_tasks,
                   progressVars, file_limit, discVars, workerVars, loggerVars, histVars>>

(***************************************************************************)
(* MigrateLogger.log_file_migrate: one line appended to the jsonl log and  *)
(* the counters updated, all under MigrateLogger.lock.                     *)
(***************************************************************************)
LogFileMigrate(obs_bucket, obs_path, status, error) ==
    /\ log_entries' =
          [log_entries EXCEPT ![<<obs_bucket, obs_path>>] =
              Append(@, [status |-> status, error_msg |-> error])]
    /\ success_files' = IF status = "success" THEN success_files + 1 ELSE success_files
    /\ failed_files' = IF status = "success" THEN failed_files ELSE failed_files + 1
    /\ failed_list' =
          IF status = "success" THEN failed_list
          ELSE Append(failed_list, [obs_path |-> obs_path, error_msg |-> error])
    /\ bucket_stats' =
          [bucket_stats EXCEPT ![obs_bucket] =
              [total |-> @.total + 1,
               success |-> IF status = "success" THEN @.success + 1 ELSE @.success,
               failed |-> IF status = "success" THEN @.failed ELSE @.failed + 1]]
    /\ UNCHANGED logger_total_files

(***************************************************************************)
(* A worker thread: MigrateManager.worker.                                 *)
(***************************************************************************)
\* the worker threads are daemon threads: they run until the process exits
ProcessAlive == mpc # "exit"

\* if self.exit_flag: break
WorkerCheckExit(w) ==
    /\ ProcessAlive
    /\ wpc[w] = "loop"
    /\ wpc' = [wpc EXCEPT ![w] = IF exit_flag THEN "exited" ELSE "get"]
    /\ UNCHANGED <<taskVars, cfgVars, textVars, mpc, hpc, exit_flag, file_limit, task_queue,
                   unfinished_tasks, progressVars, discVars, wtask, attempt, success, error_msg,
                   loggerVars, histVars>>

\* a get that returns the head and leaves it on the queue
DequeuePeek(q) == q

\* what queue.Queue.get leaves on the queue
Dequeue(q) == Tail(q)

\* get_count after queue.get returned item
Counted(item) ==
    IF item = None THEN get_count ELSE [get_count EXCEPT ![item] = @ + 1]

\* late_gets after queue.get returned item
LateCounted(item) ==
    IF item # None /\ exit_flag THEN late_gets \cup {item} ELSE late_gets

\* a worker that goes back to the top of its loop when it gets None
WorkerGetPastSentinel(w) ==
    /\ ProcessAlive
    /\ wpc[w] = "get"
    /\ task_queue # << >>
    /\ LET item == Head(task_queue)
       IN  /\ task_queue' = Dequeue(task_queue)
           /\ get_count' = Counted(item)
           /\ late_gets' = LateCounted(item)
           /\ IF item = None
              THEN /\ wpc' = [wpc EXCEPT ![w] = "loop"]
                   /\ UNCHANGED wtask
              ELSE /\ wpc' = [wpc EXCEPT ![w] = "got"]
                   /\ wtask' = [wtask EXCEPT ![w] = item]
    /\ UNCHANGED <<taskVars, cfgVars, textVars, mpc, hpc, exit_flag, file_limit, unfinished_tasks,
                   progressVars, discVars, attempt, success, error_msg, loggerVars>>

\* task_info = self.task_queue.get(timeout=1); None ends the worker
WorkerGet(w) ==
    /\ ProcessAlive
    /\ wpc[w] = "get"
    /\ task_queue # << >>
    /\ LET item == Head(task_queue)
       IN  /\ task_queue' = Dequeue(task_queue)
           /\ get_count' = Counted(item)
           /\ late_gets' = LateCounted(item)
           /\ IF item = None
              THEN /\ wpc' = [wpc EXCEPT ![w] = "exited"]
                   /\ UNCHANGED wtask
              ELSE /\ wpc' = [wpc EXCEPT ![w] = "got"]
                   /\ wtask' = [wtask EXCEPT ![w] = item]
    /\ UNCHANGED <<taskVars, cfgVars, textVars, mpc, hpc, exit_flag, file_limit, unfinished_tasks,
                   progressVars, discVars, attempt, success, error_msg, loggerVars>>

\* except queue.Empty: continue. With the exit flag unset a timeout leads back
\* to the same get, so the worker stays in it; with the flag set it breaks at
\* the top of the loop
WorkerGetTimeout(w) ==
    /\ ProcessAlive
    /\ wpc[w] = "get"
    /\ task_queue = << >>
    /\ exit_flag
    /\ wpc' = [wpc EXCEPT ![w] = "loop"]
    /\ UNCHANGED <<taskVars, cfgVars, textVars, mpc, hpc, exit_flag, file_limit, task_queue,
                   unfinished_tasks, progressVars, discVars, wtask, attempt, success, error_msg,
                   loggerVars, histVars>>

\* a worker without the second check of the exit flag: the task is transferred
WorkerStartAnyway(w) ==
    /\ ProcessAlive
    /\ wpc[w] = "got"
    /\ exit_flag
    /\ wpc' = [wpc EXCEPT ![w] = "migrate"]
    /\ attempt' = [attempt EXCEPT ![w] = 0]
    /\ success' = [success EXCEPT ![w] = FALSE]
    /\ error_msg' = [error_msg EXCEPT ![w] = NoError]
    /\ UNCHANGED <<taskVars, cfgVars, textVars, mpc, hpc, exit_flag, file_limit, task_queue,
                   unfinished_tasks, progressVars, discVars, wtask, loggerVars, histVars>>

\* a second check of the exit flag that breaks without task_done()
WorkerDiscardNotDone(w) ==
    /\ ProcessAlive
    /\ wpc[w] = "got"
    /\ exit_flag
    /\ wpc' = [wpc EXCEPT ![w] = "exited"]
    /\ wtask' = [wtask EXCEPT ![w] = NoTask]
    /\ UNCHANGED <<taskVars, cfgVars, textVars, mpc, hpc, exit_flag, file_limit, task_queue,
                   unfinished_tasks, progressVars, discVars, attempt, success, error_msg,
                   loggerVars, histVars>>

\* the second check of the exit flag: task_done() and break
WorkerDiscard(w) ==
    /\ ProcessAlive
    /\ wpc[w] = "got"
    /\ exit_flag
    /\ unfinished_tasks' = unfinished_tasks - 1
    /\ wpc' = [wpc EXCEPT ![w] = "exited"]
    /\ wtask' = [wtask EXCEPT ![w] = NoTask]
    /\ UNCHANGED <<taskVars, cfgVars, textVars, mpc, hpc, exit_flag, file_limit, task_queue,
                   progressVars, discVars, attempt, success, error_msg, loggerVars, histVars>>

\* the exit flag is not set: the clients and the MigrateTask are built and
\* migrate_file starts with attempt = 0 and success = False
WorkerBuildClients(w) ==
    /\ ProcessAlive
    /\ wpc[w] = "got"
    /\ ~exit_flag
    /\ HasSourceKeys(wtask[w])
    /\ wpc' = [wpc EXCEPT ![w] = "migrate"]
    /\ attempt' = [attempt EXCEPT ![w] = 0]
    /\ success' = [success EXCEPT ![w] = FALSE]
    /\ error_msg' = [error_msg EXCEPT ![w] = NoError]
    /\ UNCHANGED <<taskVars, cfgVars, textVars, mpc, hpc, exit_flag, file_limit, task_queue,
                   unfinished_tasks, progressVars, discVars, wtask, loggerVars, histVars>>

\* the exit flag is not set and building a client, the MigrateTask or
\* should_use_streaming raises; bucket_mapping['source_bucket'] raises KeyError
\* for the default mapping
WorkerBuildRaises(w) ==
    /\ ProcessAlive
    /\ wpc[w] = "got"
    /\ ~exit_flag
    /\ wpc' = [wpc EXCEPT ![w] = "except"]
    /\ UNCHANGED <<taskVars, cfgVars, textVars, mpc, hpc, exit_flag, file_limit, task_queue,
                   unfinished_tasks, progressVars, discVars, wtask, attempt, success, error_msg,
                   loggerVars, histVars>>

\* a loop that gives up one attempt early
LoopConditionShort(w) == attempt[w] < max_retry - 1 /\ ~success[w]

\* while attempt < self.max_retry and not success
LoopCondition(w) == attempt[w] < max_retry /\ ~success[w]

\* one pass of the retry loop: the attempt succeeds, or it fails and sets
\* error_msg (every failure with the same text)
WorkerAttempt(w) ==
    /\ ProcessAlive
    /\ wpc[w] = "migrate"
    /\ LoopCondition(w)
    /\ attempt' = [attempt EXCEPT ![w] = @ + 1]
    /\ \E ok \in BOOLEAN :
          /\ success' = [success EXCEPT ![w] = ok]
          /\ error_msg' = IF ok THEN error_msg
                          ELSE [error_msg EXCEPT ![w] = Err("error", 0)]
    /\ UNCHANGED <<taskVars, cfgVars, textVars, mpc, hpc, exit_flag, file_limit, task_queue,
                   unfinished_tasks, progressVars, discVars, wpc, wtask, loggerVars,
                   histVars>>

\* after the loop: migrate_logger.log_file_migrate(..., status, ...) and the
\* return of migrate_file, which ends its locals
WorkerRecord(w) ==
    /\ ProcessAlive
    /\ wpc[w] = "migrate"
    /\ ~LoopCondition(w)
    /\ LogFileMigrate(BucketOf(wtask[w]), wtask[w].key,
                      IF success[w] THEN "success" ELSE "failed", error_msg[w])
    /\ wpc' = [wpc EXCEPT ![w] = "close"]
    /\ attempt' = [attempt EXCEPT ![w] = 0]
    /\ success' = [success EXCEPT ![w] = FALSE]
    /\ error_msg' = [error_msg EXCEPT ![w] = NoError]
    /\ UNCHANGED <<taskVars, cfgVars, textVars, mpc, hpc, exit_flag, file_limit, task_queue,
                   unfinished_tasks, progressVars, discVars, wtask, histVars>>

\* with self.progress_lock: processed_files += 1 and the bucket's count
CountProcessed(w) ==
    /\ processed_files' = processed_files + 1
    /\ bucket_processed_files' =
          DictSet(bucket_processed_files, BucketOf(wtask[w]),
                  DictGet(bucket_processed_files, BucketOf(wtask[w])) + 1)
    /\ UNCHANGED <<total_files, bucket_total_files>>

\* a worker that marks a transferred task done without the progress update
WorkerProgressUncounted(w) ==
    /\ ProcessAlive
    /\ wpc[w] = "close"
    /\ wpc' = [wpc EXCEPT ![w] = "task_done"]
    /\ UNCHANGED <<taskVars, cfgVars, textVars, mpc, hpc, exit_flag, file_limit, task_queue,
                   unfinished_tasks, progressVars, discVars, wtask, attempt, success, error_msg,
                   loggerVars, histVars>>

\* the clients are closed, then the progress update after a transfer
WorkerProgress(w) ==
    /\ ProcessAlive
    /\ wpc[w] = "close"
    /\ CountProcessed(w)
    /\ wpc' = [wpc EXCEPT ![w] = "task_done"]
    /\ UNCHANGED <<taskVars, cfgVars, textVars, mpc, hpc, exit_flag, file_limit, task_queue,
                   unfinished_tasks, discVars, wtask, attempt, success, error_msg, loggerVars,
                   histVars>>

\* an except block that marks the task done without counting it
WorkerExceptNoCount(w) ==
    /\ ProcessAlive
    /\ wpc[w] \in {"except", "close"}
    /\ wpc' = [wpc EXCEPT ![w] = "task_done"]
    /\ UNCHANGED <<taskVars, cfgVars, textVars, mpc, hpc, exit_flag, file_limit, task_queue,
                   unfinished_tasks, progressVars, discVars, wtask, attempt, success, error_msg,
                   loggerVars, histVars>>

\* except Exception, entered from a raise before the transfer ("except") or
\* from close() raising after it ("close"): the task is counted as processed
WorkerExcept(w) ==
    /\ ProcessAlive
    /\ wpc[w] \in {"except", "close"}
    /\ CountProcessed(w)
    /\ wpc' = [wpc EXCEPT ![w] = "task_done"]
    /\ UNCHANGED <<taskVars, cfgVars, textVars, mpc, hpc, exit_flag, file_limit, task_queue,
                   unfinished_tasks, discVars, wtask, attempt, success, error_msg, loggerVars,
                   histVars>>

\* self.task_queue.task_done(), then the next pass of while True
WorkerTaskDone(w) ==
    /\ ProcessAlive
    /\ wpc[w] = "task_done"
    /\ unfinished_tasks' = unfinished_tasks - 1
    /\ wpc' = [wpc EXCEPT ![w] = "loop"]
    /\ wtask' = [wtask EXCEPT ![w] = NoTask]
    /\ UNCHANGED <<taskVars, cfgVars, textVars, mpc, hpc, exit_flag, file_limit, task_queue,
                   progressVars, discVars, attempt, success, error_msg, loggerVars, histVars>>

(***************************************************************************)
(* MigrateManager._signal_handler, run on the main thread.                 *)
(***************************************************************************)
\* SIGINT or SIGTERM arrives: self.exit_flag = True
SignalHandler ==
    /\ hpc = "idle"
    /\ mpc \notin {"done", "returned", "raised", "exit"}
    /\ exit_flag' = TRUE
    /\ hpc' = "drain"
    /\ UNCHANGED <<taskVars, cfgVars, textVars, mpc, file_limit, task_queue, unfinished_tasks, progressVars,
                   discVars, workerVars, loggerVars, histVars>>

\* a drain that counts what it removes as processed
HandlerDrainCounting ==
    /\ hpc = "drain"
    /\ task_queue # << >>
    /\ get_count' = Counted(Head(task_queue))
    /\ late_gets' = LateCounted(Head(task_queue))
    /\ task_queue' = Dequeue(task_queue)
    /\ unfinished_tasks' = unfinished_tasks - 1
    /\ processed_files' = processed_files + 1
    /\ UNCHANGED <<taskVars, cfgVars, textVars, mpc, hpc, exit_flag, file_limit, total_files,
                   bucket_total_files, bucket_processed_files, discVars, workerVars,
                   loggerVars>>

\* one pass of the drain loop: get(timeout=0.1) and task_done()
HandlerDrain ==
    /\ hpc = "drain"
    /\ task_queue # << >>
    /\ get_count' = Counted(Head(task_queue))
    /\ late_gets' = LateCounted(Head(task_queue))
    /\ task_queue' = Dequeue(task_queue)
    /\ unfinished_tasks' = unfinished_tasks - 1
    /\ UNCHANGED <<taskVars, cfgVars, textVars, mpc, hpc, exit_flag, file_limit, progressVars,
                   discVars, workerVars, loggerVars>>

\* the queue is empty: the handler returns
HandlerReturn ==
    /\ hpc = "drain"
    /\ task_queue = << >>
    /\ hpc' = "idle"
    /\ UNCHANGED <<taskVars, cfgVars, textVars, mpc, exit_flag, file_limit, task_queue,
                   unfinished_tasks, progressVars, discVars, workerVars, loggerVars,
                   histVars>>

(***************************************************************************)
(* The scheduler's specification.                                          *)
(***************************************************************************)
Next ==
    \/ StartMigration
    \/ \E m \in Mappings : BeginListing(m)
    \/ \E m \in Mappings : ListBucket(m)
    \/ \E m \in Mappings : ListBucketFails(m)
    \/ CollectFiles
    \/ EnqueueTask
    \/ SetTotals
    \/ ReturnNoFiles
    \/ StartWait
    \/ StopWorkers
    \/ JoinWorkers
    \/ GenerateReport
    \/ ProcessExit
    \/ \E w \in Workers : WorkerCheckExit(w)
    \/ \E w \in Workers : WorkerGet(w)
    \/ \E w \in Workers : WorkerGetTimeout(w)
    \/ \E w \in Workers : WorkerDiscard(w)
    \/ \E w \in Workers : WorkerBuildClients(w)
    \/ \E w \in Workers : WorkerBuildRaises(w)
    \/ \E w \in Workers : WorkerAttempt(w)
    \/ \E w \in Workers : WorkerRecord(w)
    \/ \E w \in Workers : WorkerProgress(w)
    \/ \E w \in Workers : WorkerExcept(w)
    \/ \E w \in Workers : WorkerTaskDone(w)
    \/ SignalHandler
    \/ HandlerDrain
    \/ HandlerReturn

Spec == Init /\ [][Next]_vars

\* the steps of one worker thread
WorkerStep(w) ==
    \/ WorkerCheckExit(w)
    \/ WorkerGet(w)
    \/ WorkerGetTimeout(w)
    \/ WorkerDiscard(w)
    \/ WorkerBuildClients(w)
    \/ WorkerBuildRaises(w)
    \/ WorkerAttempt(w)
    \/ WorkerRecord(w)
    \/ WorkerProgress(w)
    \/ WorkerExcept(w)
    \/ WorkerTaskDone(w)

\* the steps of the discovery threads
DiscoveryStep ==
    \E m \in Mappings : BeginListing(m) \/ ListBucket(m) \/ ListBucketFails(m)

\* the steps of the main thread in start_migration
MainStep ==
    \/ StartMigration
    \/ CollectFiles
    \/ EnqueueTask
    \/ SetTotals
    \/ ReturnNoFiles
    \/ StartWait
    \/ StopWorkers
    \/ JoinWorkers
    \/ GenerateReport

\* the scheduler with every thread scheduled again and again: a thread that
\* can take a step is not kept from it forever
SpecFair ==
    /\ Spec
    /\ \A w \in Workers : WF_vars(WorkerStep(w))
    /\ WF_vars(DiscoveryStep)
    /\ WF_vars(MainStep)

(***************************************************************************)
(* The scheduler in single-bucket mode: no bucket mappings are configured  *)
(* and the caller may have set an item cap.                                *)
(***************************************************************************)
InitSingle ==
    /\ bucket_mappings = << >>
    /\ max_retry = MaxRetry
    /\ file_limit \in {NoLimit} \cup 1..MaxLimit
    /\ InitManager
    /\ InitLogger
    /\ logger_total_files = 0
    /\ InitNoDetail
    /\ InitNoText

NextSingle ==
    \/ StartMigration
    \/ ListSingle
    \/ ListSingleFails
    \/ EnqueueSingle
    \/ ReturnNoFiles
    \/ StartWait
    \/ StopWorkers
    \/ JoinWorkers
    \/ GenerateReport
    \/ ProcessExit
    \/ \E w \in Workers : WorkerCheckExit(w)
    \/ \E w \in Workers : WorkerGet(w)
    \/ \E w \in Workers : WorkerGetTimeout(w)
    \/ \E w \in Workers : WorkerDiscard(w)
    \/ \E w \in Workers : WorkerBuildRaises(w)
    \/ \E w \in Workers : WorkerExcept(w)
    \/ \E w \in Workers : WorkerTaskDone(w)
    \/ SignalHandler
    \/ HandlerDrain
    \/ HandlerReturn

SpecSingle == InitSingle /\ [][NextSingle]_vars

(***************************************************************************)
(* One transfer in detail: MigrateTask.migrate_file and                    *)
(* migrate_file_stream with OSSClient.upload_file and upload_file_stream.  *)
(* The worker is at "migrate" at the head of the retry loop; WorkerRecord  *)
(* is the code after the loop.                                             *)
(***************************************************************************)
\* a comparison of the header as it came, quotes included
StripNothing(header) == IF header.quoted THEN "\"" \o header.hash \o "\"" ELSE header.hash

\* str.strip('"') on an ETag header
Strip(header) == header.hash

\* an etag check that never finds the target up to date
EtagNeverMatches(header, etag) == FALSE

\* existing_etag == etag, with existing_etag = existing_meta.etag.strip('"')
EtagMatches(header, etag) == Strip(header) = etag

\* a wait that grows with the attempt number
SleepBackoff(w) == Append(sleeps, retry_interval * attempt[w])

\* time.sleep(self.retry_interval)
SleepInterval(w) == Append(sleeps, retry_interval)

\* if attempt < self.max_retry: time.sleep(self.retry_interval)
SleepsAfterFailure(w) == IF attempt[w] < max_retry THEN SleepInterval(w) ELSE sleeps

\* a failure that keeps the error text of the first failed attempt
FailureTextKeepFirst(w, kind) ==
    IF error_msg[w] = NoError THEN Err(kind, attempt[w]) ELSE error_msg[w]

\* error_msg = upload_error / str(e) / resp.errorMessage of the current attempt
FailureText(w, kind) == Err(kind, attempt[w])

\* the attempt ends in failure: error_msg is set, the error is logged and,
\* unless this was the last attempt, the worker sleeps
AttemptFails(w, kind) ==
    /\ success' = [success EXCEPT ![w] = FALSE]
    /\ error_msg' = [error_msg EXCEPT ![w] = FailureText(w, kind)]
    /\ results' = Append(results, [ok |-> FALSE, err |-> Err(kind, attempt[w])])
    /\ sleeps' = SleepsAfterFailure(w)
    /\ in_upload_file' = FALSE
    /\ wpc' = [wpc EXCEPT ![w] = "migrate"]

\* upload_file / upload_file_stream returned (True, ""): the attempt succeeded
AttemptSucceeds(w) ==
    /\ success' = [success EXCEPT ![w] = TRUE]
    /\ results' = Append(results, [ok |-> TRUE, err |-> NoError])
    /\ in_upload_file' = FALSE
    /\ wpc' = [wpc EXCEPT ![w] = "migrate"]
    /\ UNCHANGED <<error_msg, sleeps>>

managerVars == <<mpc, hpc, exit_flag, file_limit, task_queue, unfinished_tasks,
                 progressVars, discVars, histVars>>

\* attempt += 1, then get_object / get_object_stream returns
TaskFetch(w) ==
    /\ wpc[w] = "migrate"
    /\ LoopCondition(w)
    /\ attempt' = [attempt EXCEPT ![w] = @ + 1]
    /\ source_gets' = source_gets + 1
    /\ wpc' = [wpc EXCEPT ![w] = "upload"]
    /\ in_upload_file' = ~streaming
    /\ UNCHANGED <<cfgVars, textVars, managerVars, loggerVars, wtask, success, error_msg,
                   streaming, retry_interval, target, target0, put_requests,
                   stream_reads, results, sleeps>>

\* attempt += 1, then get_object / get_object_stream raises (except Exception),
\* or the response of get_object_stream has status >= 300
TaskFetchFails(w) ==
    /\ wpc[w] = "migrate"
    /\ LoopCondition(w)
    /\ attempt' = [attempt EXCEPT ![w] = @ + 1]
    /\ source_gets' = source_gets + 1
    /\ wpc' = [wpc EXCEPT ![w] = "fetch_failed"]
    /\ UNCHANGED <<cfgVars, textVars, managerVars, loggerVars, wtask, success, error_msg,
                   streaming, retry_interval, in_upload_file, target, target0,
                   put_requests, stream_reads, results, sleeps>>

\* the handling of the failed fetch: the except block, or the else branch of
\* resp.status < 300 (stream only)
TaskFetchFailed(w) ==
    /\ wpc[w] = "fetch_failed"
    /\ \E kind \in {"fetch_raises"} \cup (IF streaming THEN {"fetch_status"} ELSE {}) :
          AttemptFails(w, kind)
    /\ UNCHANGED <<cfgVars, textVars, managerVars, loggerVars, wtask, attempt, streaming,
                   retry_interval, target, target0, put_requests, source_gets,
                   stream_reads>>

\* what follows the etag check when the object is absent or differs: the PUT in
\* upload_file, file_stream.read() in upload_file_stream
AfterCheck == IF in_upload_file THEN "put" ELSE "read"

\* an existence check that never finds the object
TaskObjectNeverExists(w) ==
    /\ wpc[w] = "upload"
    /\ wpc' = [wpc EXCEPT ![w] = AfterCheck]
    /\ UNCHANGED <<cfgVars, textVars, managerVars, loggerVars, taskVars, wtask, attempt, success,
                   error_msg>>

\* exists = self.object_exists(oss_path): a HEAD request
TaskObjectExists(w) ==
    /\ wpc[w] = "upload"
    /\ wpc' = [wpc EXCEPT ![w] = IF target.present THEN "head" ELSE AfterCheck]
    /\ UNCHANGED <<cfgVars, textVars, managerVars, loggerVars, taskVars, wtask, attempt, success,
                   error_msg>>

\* the HEAD request of object_exists fails (not with 404): (False, error)
TaskObjectExistsFails(w) ==
    /\ wpc[w] = "upload"
    /\ AttemptFails(w, "exists_raises")
    /\ UNCHANGED <<cfgVars, textVars, managerVars, loggerVars, wtask, attempt, streaming,
                   retry_interval, target, target0, put_requests, source_gets,
                   stream_reads>>

\* existing_meta = self.head_object(oss_path) and the comparison of the etags
TaskHeadObject(w) ==
    /\ wpc[w] = "head"
    /\ IF EtagMatches(target, SrcEtag)
       THEN /\ AttemptSucceeds(w)
            /\ UNCHANGED <<attempt>>
       ELSE /\ wpc' = [wpc EXCEPT ![w] = AfterCheck]
            /\ UNCHANGED <<attempt, success, error_msg, results, sleeps, in_upload_file>>
    /\ UNCHANGED <<cfgVars, textVars, managerVars, loggerVars, wtask, streaming, retry_interval,
                   target, target0, put_requests, source_gets, stream_reads>>

\* the HEAD request of head_object fails: (False, error)
TaskHeadObjectFails(w) ==
    /\ wpc[w] = "head"
    /\ AttemptFails(w, "head_raises")
    /\ UNCHANGED <<cfgVars, textVars, managerVars, loggerVars, wtask, attempt, streaming,
                   retry_interval, target, target0, put_requests, source_gets,
                   stream_reads>>

\* upload_file_stream: file_content = file_stream.read(), then
\* self.upload_file(obs_path, file_content, file_size, etag)
TaskReadStream(w) ==
    /\ wpc[w] = "read"
    /\ stream_reads' = stream_reads + 1
    /\ in_upload_file' = TRUE
    /\ wpc' = [wpc EXCEPT ![w] = "upload"]
    /\ UNCHANGED <<cfgVars, textVars, managerVars, loggerVars, wtask, attempt, success, error_msg,
                   streaming, retry_interval, target, target0, put_requests,
                   source_gets, results, sleeps>>

\* file_stream.read() raises: (False, str(e))
TaskReadStreamFails(w) ==
    /\ wpc[w] = "read"
    /\ stream_reads' = stream_reads + 1
    /\ AttemptFails(w, "read_raises")
    /\ UNCHANGED <<cfgVars, textVars, managerVars, loggerVars, wtask, attempt, streaming,
                   retry_interval, target, target0, put_requests, source_gets>>

\* a PUT whose status 200 is taken as success without a look at the ETag
TaskPutObjectUnverified(w) ==
    /\ wpc[w] = "put"
    /\ put_requests' = put_requests + 1
    /\ \E header \in {h \in EtagHeaders : h.quoted} :
          /\ target' = header
          /\ AttemptSucceeds(w)
    /\ UNCHANGED <<cfgVars, textVars, managerVars, loggerVars, wtask, attempt, streaming,
                   retry_interval, target0, source_gets, stream_reads>>

\* result = self._put_object(...): status 200, and the returned ETag is
\* compared with the descriptor's etag
TaskPutObject(w) ==
    /\ wpc[w] = "put"
    /\ put_requests' = put_requests + 1
    /\ \E header \in {h \in EtagHeaders : h.quoted} :
          /\ target' = header
          /\ IF Strip(header) = SrcEtag
             THEN AttemptSucceeds(w)
             ELSE AttemptFails(w, "md5_mismatch")
    /\ UNCHANGED <<cfgVars, textVars, managerVars, loggerVars, wtask, attempt, streaming,
                   retry_interval, target0, source_gets, stream_reads>>

\* the PUT request fails (HTTPError or RequestException), or its status is a
\* success status other than 200: (False, error)
TaskPutObjectFails(w) ==
    /\ wpc[w] = "put"
    /\ put_requests' = put_requests + 1
    /\ \E kind \in {"put_raises", "put_status"} : AttemptFails(w, kind)
    /\ UNCHANGED <<cfgVars, textVars, managerVars, loggerVars, wtask, attempt, streaming,
                   retry_interval, target, target0, source_gets, stream_reads>>

\* the worker the detailed transfer runs in, and its task
TheWorker == "w1"
TheTask == [m |-> 1, key |-> 1]
RetryIntervals == {1, DefaultRetryInterval}

\* a worker has dequeued a task and built its MigrateTask; the target holds
\* any object or none
\* the state of the manager, the logger and the stores around the one transfer
InitTaskAround ==
    /\ bucket_mappings = <<"b1", "b2">>
    /\ mpc = "wait"
    /\ hpc = "idle"
    /\ exit_flag = FALSE
    /\ file_limit = NoLimit
    /\ task_queue = << >>
    /\ unfinished_tasks = 1
    /\ total_files = 1
    /\ processed_files = 0
    /\ bucket_total_files = [b \in {"b1"} |-> 1]
    /\ bucket_processed_files = [b \in {"b1"} |-> 0]
    /\ lpc = [m \in Mappings |-> "joined"]
    /\ file_count = [m \in Mappings |-> 0]
    /\ bucket_file_generators = << >>
    /\ all_files_to_migrate = <<TheTask>>
    /\ enq = 1
    /\ get_count = [t \in AllTasks |-> IF t = TheTask THEN 1 ELSE 0]
    /\ late_gets = {}
    /\ wtask = [w \in Workers |-> IF w = TheWorker THEN TheTask ELSE NoTask]
    /\ attempt = [w \in Workers |-> 0]
    /\ success = [w \in Workers |-> FALSE]
    /\ error_msg = [w \in Workers |-> NoError]
    /\ InitLogger
    /\ logger_total_files = 1
    /\ in_upload_file = FALSE
    /\ target \in EtagHeaders \cup {Absent}
    /\ target0 = target
    /\ put_requests = 0
    /\ source_gets = 0
    /\ stream_reads = 0
    /\ results = << >>
    /\ sleeps = << >>

InitTask ==
    /\ InitTaskAround
    /\ InitNoText
    /\ max_retry \in 1..MaxRetryTask
    /\ wpc = [w \in Workers |-> IF w = TheWorker THEN "migrate" ELSE "get"]
    /\ streaming_threshold = NotConfigured
    /\ chunk_size = DefaultChunkSize
    /\ streaming \in BOOLEAN
    /\ file_size = IF streaming THEN DefaultStreamingThreshold + 1 ELSE 0
    /\ retry_interval \in RetryIntervals

NextTask ==
    \/ TaskFetch(TheWorker)
    \/ TaskFetchFails(TheWorker)
    \/ TaskFetchFailed(TheWorker)
    \/ TaskObjectExists(TheWorker)
    \/ TaskObjectExistsFails(TheWorker)
    \/ TaskHeadObject(TheWorker)
    \/ TaskHeadObjectFails(TheWorker)
    \/ TaskReadStream(TheWorker)
    \/ TaskReadStreamFails(TheWorker)
    \/ TaskPutObject(TheWorker)
    \/ TaskPutObjectFails(TheWorker)
    \/ WorkerRecord(TheWorker)

SpecTask == InitTask /\ [][NextTask]_vars

(***************************************************************************)
(* The choice of the transfer method: the worker holds a task of some size *)
(* and calls should_use_streaming under some concurrency configuration.    *)
(***************************************************************************)
FileSizes == {0, 5 * MB, 10 * MB, 10 * MB + 1, 11 * MB, 50 * MB, 50 * MB + 1, 100 * MB}
ThresholdConfigs == {NotConfigured, 10 * MB}
ChunkSizes == {MB, DefaultChunkSize}

InitDispatch ==
    /\ InitTaskAround
    /\ InitNoText
    /\ max_retry = 1
    /\ retry_interval = DefaultRetryInterval
    /\ wpc = [w \in Workers |-> IF w = TheWorker THEN "got" ELSE "get"]
    /\ streaming_threshold \in ThresholdConfigs
    /\ chunk_size \in ChunkSizes
    /\ file_size \in FileSizes
    /\ streaming = FALSE

\* the clients and the MigrateTask are built, then
\* if migrate_task.should_use_streaming(file_size): migrate_file_stream(file_info)
\* else: migrate_file(file_info)
TaskDispatch(w) ==
    /\ wpc[w] = "got"
    /\ ~exit_flag
    /\ HasSourceKeys(wtask[w])
    /\ streaming' = ShouldUseStreaming(file_size)
    /\ wpc' = [wpc EXCEPT ![w] = "migrate"]
    /\ attempt' = [attempt EXCEPT ![w] = 0]
    /\ success' = [success EXCEPT ![w] = FALSE]
    /\ error_msg' = [error_msg EXCEPT ![w] = NoError]
    /\ UNCHANGED <<cfgVars, textVars, managerVars, loggerVars, wtask, retry_interval, in_upload_file,
                   target, target0, put_requests, source_gets, stream_reads, results, sleeps>>

NextDispatch == TaskDispatch(TheWorker) \/ NextTask

SpecDispatch == InitDispatch /\ [][NextDispatch]_vars

(***************************************************************************)
(* A second run of the engine over the same object: a new process, so the  *)
(* counters of the manager, the logger and the task start again, while the *)
(* target store and the jsonl log keep what the first run left.            *)
(***************************************************************************)
Rerun ==
    /\ wpc[TheWorker] = "close"
    /\ Len(log_entries[<<BucketOf(TheTask), TheTask.key>>]) = 1
    /\ wpc' = [wpc EXCEPT ![TheWorker] = "migrate"]
    /\ target0' = target
    /\ in_upload_file' = FALSE
    /\ put_requests' = 0
    /\ source_gets' = 0
    /\ stream_reads' = 0
    /\ results' = << >>
    /\ sleeps' = << >>
    /\ success_files' = 0
    /\ failed_files' = 0
    /\ failed_list' = << >>
    /\ bucket_stats' = [b \in Buckets |-> [total |-> 0, success |-> 0, failed |-> 0]]
    /\ UNCHANGED <<cfgVars, textVars, managerVars, wtask, attempt, success, error_msg, streaming,
                   retry_interval, target, log_entries, logger_total_files>>

NextRerun == NextTask \/ Rerun

SpecRerun == InitTask /\ [][NextRerun]_vars

(***************************************************************************)
(* Discovery with three mappings, two of which may name the same source    *)
(* bucket: the main thread from the start of start_migration to the totals *)
(* and the discovery threads, before any worker has taken a task.          *)
(***************************************************************************)
DiscoveryConfigs == {BucketNames, <<"b1", "b1", "b2">>}

InitDiscovery ==
    /\ bucket_mappings \in DiscoveryConfigs
    /\ max_retry = MaxRetry
    /\ file_limit = NoLimit
    /\ InitManager
    /\ InitLogger
    /\ logger_total_files = 0
    /\ InitNoDetail
    /\ InitNoText

NextDiscovery ==
    \/ StartMigration
    \/ \E m \in Mappings : BeginListing(m)
    \/ \E m \in Mappings : ListBucket(m)
    \/ \E m \in Mappings : ListBucketFails(m)
    \/ CollectFiles
    \/ EnqueueTask
    \/ SetTotals

SpecDiscovery == InitDiscovery /\ [][NextDiscovery]_vars

(***************************************************************************)
(* The collection loop alone: the discovery threads have ended, each of    *)
(* three mappings with its own source bucket has stored its generator or   *)
(* died, in any order of completion; the main thread collects, enqueues    *)
(* and sets the totals.                                                    *)
(***************************************************************************)
GenRecords ==
    {[bucket |-> BucketNames[m], m |-> m, n |-> n] :
        m \in DOMAIN BucketNames, n \in 0..MaxListed}

\* the dicts the discovery threads can leave behind
GeneratorStores ==
    {g \in UNION {[1..k -> GenRecords] : k \in 0..Len(BucketNames)} :
        \A i, j \in DOMAIN g : i # j => g[i].bucket # g[j].bucket}

InitCollect ==
    /\ bucket_mappings = BucketNames
    /\ max_retry = MaxRetry
    /\ mpc = "join_buckets"
    /\ hpc = "idle"
    /\ exit_flag = FALSE
    /\ task_queue = << >>
    /\ unfinished_tasks = 0
    /\ total_files = 0
    /\ processed_files = 0
    /\ bucket_total_files = EmptyDict
    /\ bucket_processed_files = EmptyDict
    /\ file_limit \in {NoLimit} \cup 1..MaxLimit
    /\ bucket_file_generators \in GeneratorStores
    /\ lpc = [m \in Mappings |->
                IF \E i \in DOMAIN bucket_file_generators : bucket_file_generators[i].m = m
                THEN "done" ELSE "failed"]
    /\ file_count = [m \in Mappings |->
                IF \E i \in DOMAIN bucket_file_generators : bucket_file_generators[i].m = m
                THEN (CHOOSE r \in GenRecords :
                        \E i \in DOMAIN bucket_file_generators :
                            bucket_file_generators[i] = r /\ r.m = m).n
                ELSE 0]
    /\ all_files_to_migrate = << >>
    /\ enq = 0
    /\ wpc = [w \in Workers |-> "loop"]
    /\ wtask = [w \in Workers |-> NoTask]
    /\ attempt = [w \in Workers |-> 0]
    /\ success = [w \in Workers |-> FALSE]
    /\ error_msg = [w \in Workers |-> NoError]
    /\ get_count = [t \in AllTasks |-> 0]
    /\ late_gets = {}
    /\ InitLogger
    /\ logger_total_files = 0
    /\ InitNoDetail
    /\ InitNoText

NextCollect ==
    \/ CollectFiles
    \/ EnqueueTask
    \/ SetTotals

SpecCollect == InitCollect /\ [][NextCollect]_vars

(***************************************************************************)
(* Text.  A key, a prefix or a suffix is a sequence of characters; "a" and *)
(* "A" stand for two characters that differ in case only.                  *)
(***************************************************************************)
PathChars == {"/", "a"}
KeyChars == {"a", "A"}

\* the texts of at most n characters
Texts(chars, n) == UNION {[1..k -> chars] : k \in 0..n}

\* str.rstrip(ch)
RECURSIVE RStrip(_, _)
RStrip(text, ch) ==
    IF text # << >> /\ text[Len(text)] = ch
    THEN RStrip(SubSeq(text, 1, Len(text) - 1), ch)
    ELSE text

\* str.lstrip(ch)
RECURSIVE LStrip(_, _)
LStrip(text, ch) ==
    IF text # << >> /\ Head(text) = ch THEN LStrip(Tail(text), ch) ELSE text

\* a get_target_path that keeps the leading slashes of the key
TargetPathKeepsSlashes(prefix, path) ==
    IF prefix # << >> THEN RStrip(prefix, "/") \o <<"/">> \o path ELSE path

\* OSSClient.get_target_path with self.target_prefix = prefix
\* if self.target_prefix:
\*     return f"{self.target_prefix.rstrip('/')}/{obs_path.lstrip('/')}"
\* return obs_path
TargetPath(prefix, path) ==
    IF prefix # << >> THEN RStrip(prefix, "/") \o <<"/">> \o LStrip(path, "/") ELSE path

GetTargetPath(path) == TargetPath(target_prefix, path)

(***************************************************************************)
(* The target path of one task: the worker is in migrate_file for an       *)
(* object with some key under some target prefix; every attempt calls      *)
(* upload_file, which computes the target path, and so does the call of    *)
(* log_file_migrate after the loop.                                        *)
(***************************************************************************)
InitTargetPath ==
    /\ InitTaskAround
    /\ max_retry \in 1..MaxRetryTask
    /\ wpc = [w \in Workers |-> IF w = TheWorker THEN "migrate" ELSE "get"]
    /\ streaming_threshold = NotConfigured
    /\ chunk_size = DefaultChunkSize
    /\ file_size = 0
    /\ streaming = FALSE
    /\ retry_interval = DefaultRetryInterval
    /\ target_prefix \in Texts(PathChars, MaxText)
    /\ object_key \in Texts(PathChars, MaxText) \ {<< >>}
    /\ oss_paths = << >>
    /\ exclude_suffixes = << >>
    /\ contents = << >>
    /\ list_pos = 0
    /\ obs_files = << >>
    /\ InitNoPages

\* one pass of the retry loop: upload_file begins with
\* oss_path = self.get_target_path(obs_path)
UploadFile(w) ==
    /\ wpc[w] = "migrate"
    /\ LoopCondition(w)
    /\ attempt' = [attempt EXCEPT ![w] = @ + 1]
    /\ oss_paths' = Append(oss_paths, GetTargetPath(object_key))
    /\ \E ok \in BOOLEAN :
          /\ success' = [success EXCEPT ![w] = ok]
          /\ error_msg' = IF ok THEN error_msg
                          ELSE [error_msg EXCEPT ![w] = Err("error", attempt'[w])]
    /\ UNCHANGED <<taskVars, cfgVars, managerVars, wpc, wtask, loggerVars,
                   target_prefix, object_key, exclude_suffixes, contents, list_pos,
                   obs_files, pageVars, fileVars, lockVars>>

\* migrate_logger.log_file_migrate(obs_path, self.oss_client.get_target_path(obs_path), ...)
RecordTargetPath(w) ==
    /\ wpc[w] = "migrate"
    /\ ~LoopCondition(w)
    /\ oss_paths' = Append(oss_paths, GetTargetPath(object_key))
    /\ LogFileMigrate(BucketOf(wtask[w]), wtask[w].key,
                      IF success[w] THEN "success" ELSE "failed", error_msg[w])
    /\ wpc' = [wpc EXCEPT ![w] = "close"]
    /\ UNCHANGED <<taskVars, cfgVars, managerVars, wtask, attempt, success, error_msg,
                   target_prefix, object_key, exclude_suffixes, contents, list_pos,
                   obs_files, pageVars, fileVars, lockVars>>

NextTargetPath == UploadFile(TheWorker) \/ RecordTargetPath(TheWorker)

SpecTargetPath == InitTargetPath /\ [][NextTargetPath]_vars

(***************************************************************************)
(* The listing of one source bucket, key by key: the discovery thread of   *)
(* the first mapping is inside list_objects over some contents under some  *)
(* excluded suffixes (the thread of the second mapping has died); the main *)
(* thread then collects and enqueues what was yielded.                     *)
(***************************************************************************)
\* the character in lower case
Lower(ch) == IF ch = "A" THEN "a" ELSE ch

\* an endswith that ignores case
RECURSIVE EndsWithIgnoreCase(_, _)
EndsWithIgnoreCase(text, suffix) ==
    IF suffix = << >> THEN TRUE
    ELSE IF text = << >> THEN FALSE
    ELSE /\ Lower(text[Len(text)]) = Lower(suffix[Len(suffix)])
         /\ EndsWithIgnoreCase(SubSeq(text, 1, Len(text) - 1),
                               SubSeq(suffix, 1, Len(suffix) - 1))

\* str.endswith(suffix), character by character from the end
RECURSIVE EndsWith(_, _)
EndsWith(text, suffix) ==
    IF suffix = << >> THEN TRUE
    ELSE IF text = << >> THEN FALSE
    ELSE /\ text[Len(text)] = suffix[Len(suffix)]
         /\ EndsWith(SubSeq(text, 1, Len(text) - 1), SubSeq(suffix, 1, Len(suffix) - 1))

\* exclude = False
\* for suffix in self.exclude_suffixes:
\*     if file_path.endswith(suffix): exclude = True; break
RECURSIVE ShouldExclude(_, _)
ShouldExclude(file_path, suffixes) ==
    IF suffixes = << >> THEN FALSE
    ELSE IF EndsWith(file_path, Head(suffixes)) THEN TRUE
    ELSE ShouldExclude(file_path, Tail(suffixes))

\* the keys of stored objects, and the suffixes a configuration can name
KeyTexts == Texts(KeyChars, MaxKeyText) \ {<< >>}
SuffixTexts == Texts(KeyChars, MaxKeyText)

\* exclude_suffixes: no suffix, one, or two
SuffixLists ==
    {<< >>} \cup {<<s>> : s \in SuffixTexts} \cup {<<s, t>> : s, t \in SuffixTexts}

\* resp.body.contents: no object, one, or two
ContentsLists ==
    {<< >>} \cup {<<k>> : k \in KeyTexts} \cup {<<k, l>> : k, l \in KeyTexts}

InitListing ==
    /\ bucket_mappings = <<"b1", "b2">>
    /\ max_retry = MaxRetry
    /\ file_limit = NoLimit
    /\ mpc = "join_buckets"
    /\ hpc = "idle"
    /\ exit_flag = FALSE
    /\ task_queue = << >>
    /\ unfinished_tasks = 0
    /\ total_files = 0
    /\ processed_files = 0
    /\ bucket_total_files = EmptyDict
    /\ bucket_processed_files = EmptyDict
    /\ lpc = [m \in Mappings |-> IF m = 1 THEN "listing" ELSE "failed"]
    /\ file_count = [m \in Mappings |-> 0]
    /\ bucket_file_generators = << >>
    /\ all_files_to_migrate = << >>
    /\ enq = 0
    /\ wpc = [w \in Workers |-> "loop"]
    /\ wtask = [w \in Workers |-> NoTask]
    /\ attempt = [w \in Workers |-> 0]
    /\ success = [w \in Workers |-> FALSE]
    /\ error_msg = [w \in Workers |-> NoError]
    /\ get_count = [t \in AllTasks |-> 0]
    /\ late_gets = {}
    /\ InitLogger
    /\ logger_total_files = 0
    /\ InitNoDetail
    /\ target_prefix = << >>
    /\ object_key = << >>
    /\ oss_paths = << >>
    /\ exclude_suffixes \in SuffixLists
    /\ contents \in ContentsLists
    /\ list_pos = 0
    /\ obs_files = << >>
    /\ InitNoPages

\* for content in resp.body.contents: one pass of the loop, which yields the
\* object unless its key ends with an excluded suffix; list() collects what
\* is yielded
ListNext(m) ==
    /\ lpc[m] = "listing"
    /\ list_pos < Len(contents)
    /\ list_pos' = list_pos + 1
    /\ obs_files' = IF ShouldExclude(contents[list_pos + 1], exclude_suffixes)
                    THEN obs_files
                    ELSE Append(obs_files, contents[list_pos + 1])
    /\ UNCHANGED <<taskVars, cfgVars, managerVars, workerVars, loggerVars, target_prefix,
                   object_key, oss_paths, exclude_suffixes, contents, pageVars, fileVars, lockVars>>

\* the listing is exhausted: files holds the yielded objects, numbered in the
\* order of their yield, and the generator over them is stored
ListEnd(m) ==
    /\ lpc[m] = "listing"
    /\ list_pos = Len(contents)
    /\ file_count' = [file_count EXCEPT ![m] = Len(obs_files)]
    /\ bucket_file_generators' =
          GenStore(bucket_file_generators, bucket_mappings[m], m, Len(obs_files))
    /\ lpc' = [lpc EXCEPT ![m] = "done"]
    /\ UNCHANGED <<taskVars, cfgVars, textVars, mpc, hpc, exit_flag, task_queue, unfinished_tasks,
                   progressVars, file_limit, all_files_to_migrate, enq, workerVars,
                   loggerVars, histVars>>

NextListing ==
    \/ ListNext(1)
    \/ ListEnd(1)
    \/ CollectFiles
    \/ EnqueueTask

SpecListing == InitListing /\ [][NextListing]_vars

(***************************************************************************)
(* The listing of a source bucket served in pages: the store holds some    *)
(* keys in ascending order and answers a listObjects call with the first   *)
(* max_keys keys after the marker; a page that is not the last one is      *)
(* truncated and names the marker of the next call.                        *)
(***************************************************************************)
\* the order of the two characters
CharRank(ch) == IF ch = "A" THEN 1 ELSE 2

\* s comes before t in the order of the store's listing
RECURSIVE LexLess(_, _)
LexLess(s, t) ==
    IF t = << >> THEN FALSE
    ELSE IF s = << >> THEN TRUE
    ELSE IF Head(s) = Head(t) THEN LexLess(Tail(s), Tail(t))
    ELSE CharRank(Head(s)) < CharRank(Head(t))

RECURSIVE SortedKeys(_)
SortedKeys(keys) ==
    IF keys = {} THEN << >>
    ELSE LET first == CHOOSE k \in keys : \A l \in keys \ {k} : LexLess(k, l)
         IN  <<first>> \o SortedKeys(keys \ {first})

\* the buckets explored: at most MaxStored objects
StoredLists ==
    {SortedKeys(keys) : keys \in {ks \in SUBSET KeyTexts : Cardinality(ks) <= MaxStored}}

\* exclude_suffixes explored with pages: none, or the suffix "a"
ExcludeConfigs == {<< >>, << <<"a">> >>}

Marker(key) == [marker |-> TRUE, key |-> key]

\* where a response carries the marker of the next call: in next_marker, in
\* nextMarker, or nowhere
MarkerShapes == {"next_marker", "nextMarker", "none"}

\* the keys the store holds after the marker
KeysAfter(mk) ==
    SelectSeq(stored, LAMBDA key : mk = NoMarker \/ LexLess(mk.key, key))

\* self.client.listObjects(bucketName, prefix, marker, max_keys): the page
PageContents(mk) ==
    SubSeq(KeysAfter(mk), 1, IF Len(KeysAfter(mk)) < MaxKeys THEN Len(KeysAfter(mk)) ELSE MaxKeys)

\* and the rest of the body
PageBody(mk, shape) ==
    LET truncated == Len(KeysAfter(mk)) > MaxKeys
        next == Marker(PageContents(mk)[Len(PageContents(mk))])
    IN  [is_truncated |-> truncated,
         next_marker |-> IF truncated /\ shape = "next_marker" THEN next ELSE NoAttr,
         nextMarker |-> IF truncated /\ shape = "nextMarker" THEN next ELSE NoAttr]

\* a list_objects that goes on with the marker it already has
NextMarkerKept(body, page, mk) == mk

\* marker = resp.body.next_marker, or resp.body.nextMarker, or the key of the
\* last object of the page
NextMarker(body, page, mk) ==
    IF body.next_marker # NoAttr THEN body.next_marker
    ELSE IF body.nextMarker # NoAttr THEN body.nextMarker
    ELSE Marker(page[Len(page)])

\* has_more: the page is truncated and a marker for the next call is at hand
HasMore(body, page) ==
    /\ body.is_truncated
    /\ body.next_marker # NoAttr \/ body.nextMarker # NoAttr \/ page # << >>

InitPages ==
    /\ bucket_mappings = <<"b1", "b2">>
    /\ max_retry = MaxRetry
    /\ file_limit = NoLimit
    /\ mpc = "join_buckets"
    /\ hpc = "idle"
    /\ exit_flag = FALSE
    /\ task_queue = << >>
    /\ unfinished_tasks = 0
    /\ total_files = 0
    /\ processed_files = 0
    /\ bucket_total_files = EmptyDict
    /\ bucket_processed_files = EmptyDict
    /\ lpc = [m \in Mappings |-> IF m = 1 THEN "call" ELSE "failed"]
    /\ file_count = [m \in Mappings |-> 0]
    /\ bucket_file_generators = << >>
    /\ all_files_to_migrate = << >>
    /\ enq = 0
    /\ wpc = [w \in Workers |-> "loop"]
    /\ wtask = [w \in Workers |-> NoTask]
    /\ attempt = [w \in Workers |-> 0]
    /\ success = [w \in Workers |-> FALSE]
    /\ error_msg = [w \in Workers |-> NoError]
    /\ get_count = [t \in AllTasks |-> 0]
    /\ late_gets = {}
    /\ InitLogger
    /\ logger_total_files = 0
    /\ InitNoDetail
    /\ target_prefix = << >>
    /\ object_key = << >>
    /\ oss_paths = << >>
    /\ exclude_suffixes \in ExcludeConfigs
    /\ contents = << >>
    /\ list_pos = 0
    /\ obs_files = << >>
    /\ stored \in StoredLists
    /\ marker = NoMarker
    /\ list_calls = << >>
    /\ resp = NoResponse
    /\ failed_file = NoFile
    /\ loaded = NotLoaded
    /\ report = NoReport
    /\ InitNoLocks

\* resp = self.client.listObjects(...) with resp.status < 300
ListCall(m) ==
    /\ lpc[m] = "call"
    /\ list_calls' = Append(list_calls, marker)
    /\ contents' = PageContents(marker)
    /\ list_pos' = 0
    /\ \E shape \in MarkerShapes : resp' = PageBody(marker, shape)
    /\ lpc' = [lpc EXCEPT ![m] = "listing"]
    /\ UNCHANGED <<taskVars, cfgVars, mpc, hpc, exit_flag, task_queue, unfinished_tasks,
                   progressVars, file_limit, file_count, bucket_file_generators,
                   all_files_to_migrate, enq, workerVars, loggerVars, histVars,
                   target_prefix, object_key, oss_paths, exclude_suffixes, obs_files,
                   stored, marker, fileVars, lockVars>>

\* the call raises or resp.status >= 300: list_objects raises
ListCallFails(m) ==
    /\ lpc[m] = "call"
    /\ list_calls' = Append(list_calls, marker)
    /\ lpc' = [lpc EXCEPT ![m] = "failed"]
    /\ UNCHANGED <<taskVars, cfgVars, mpc, hpc, exit_flag, task_queue, unfinished_tasks,
                   progressVars, file_limit, file_count, bucket_file_generators,
                   all_files_to_migrate, enq, workerVars, loggerVars, histVars,
                   target_prefix, object_key, oss_paths, exclude_suffixes, contents,
                   list_pos, obs_files, stored, marker, resp, fileVars, lockVars>>

\* after the for loop over the contents: has_more and the next marker; without
\* has_more list_objects ends and the thread stores its generator
ListPageEnd(m) ==
    /\ lpc[m] = "listing"
    /\ list_pos = Len(contents)
    /\ IF HasMore(resp, contents)
       THEN /\ marker' = NextMarker(resp, contents, marker)
            /\ lpc' = [lpc EXCEPT ![m] = "call"]
            /\ UNCHANGED <<file_count, bucket_file_generators>>
       ELSE /\ file_count' = [file_count EXCEPT ![m] = Len(obs_files)]
            /\ bucket_file_generators' =
                  GenStore(bucket_file_generators, bucket_mappings[m], m, Len(obs_files))
            /\ lpc' = [lpc EXCEPT ![m] = "done"]
            /\ UNCHANGED marker
    /\ UNCHANGED <<taskVars, cfgVars, mpc, hpc, exit_flag, task_queue, unfinished_tasks,
                   progressVars, file_limit, all_files_to_migrate, enq, workerVars,
                   loggerVars, histVars, target_prefix, object_key, oss_paths,
                   exclude_suffixes, contents, list_pos, obs_files, stored, list_calls,
                   resp, fileVars, lockVars>>

NextPages ==
    \/ ListCall(1)
    \/ ListCallFails(1)
    \/ ListNext(1)
    \/ ListPageEnd(1)

SpecPages == InitPages /\ [][NextPages]_vars

(***************************************************************************)
(* The failed list on disk: generate_daily_report writes failed_<date>.txt *)
(* and load_failed_list, called by the retry script, reads it.  A file is  *)
(* a sequence of characters; "TAB" and "NL" stand for the tab and the line *)
(* feed.                                                                   *)
(***************************************************************************)
WhiteSpace == {" ", "TAB", "NL"}

RECURSIVE StripLeft(_)
StripLeft(text) ==
    IF text # << >> /\ Head(text) \in WhiteSpace THEN StripLeft(Tail(text)) ELSE text

RECURSIVE StripRight(_)
StripRight(text) ==
    IF text # << >> /\ text[Len(text)] \in WhiteSpace
    THEN StripRight(SubSeq(text, 1, Len(text) - 1))
    ELSE text

\* str.strip()
StripText(text) == StripLeft(StripRight(text))

\* for line in f: the lines of the file, each with its line feed
RECURSIVE FileLines(_)
FileLines(text) ==
    IF text = << >> THEN << >>
    ELSE LET n == IF \E i \in 1..Len(text) : text[i] = "NL"
                  THEN CHOOSE i \in 1..Len(text) :
                          text[i] = "NL" /\ \A j \in 1..(i - 1) : text[j] # "NL"
                  ELSE Len(text)
         IN  <<SubSeq(text, 1, n)>> \o FileLines(SubSeq(text, n + 1, Len(text)))

\* str.split('\t', 1)
SplitTab(text) ==
    IF \E i \in 1..Len(text) : text[i] = "TAB"
    THEN LET i == CHOOSE i \in 1..Len(text) :
                     text[i] = "TAB" /\ \A j \in 1..(i - 1) : text[j] # "TAB"
         IN  <<SubSeq(text, 1, i - 1), SubSeq(text, i + 1, Len(text))>>
    ELSE <<text>>

\* the call raised instead of returning
Raised == [raised |-> TRUE]
\* the call returned the list
ReturnedList(list) == [entries |-> list]
\* the file with that text
File(text) == [exists |-> TRUE, text |-> text]

\* the loop of load_failed_list over the lines; obs_path, error_msg = ... raises
\* ValueError when the split gives one part
RECURSIVE LoadLines(_, _)
LoadLines(lines, acc) ==
    IF lines = << >> THEN ReturnedList(acc)
    ELSE LET line == StripText(Head(lines))
         IN  IF line = << >> THEN LoadLines(Tail(lines), acc)
             ELSE IF Len(SplitTab(line)) # 2 THEN Raised
             ELSE LoadLines(Tail(lines),
                            Append(acc, [obs_path |-> SplitTab(line)[1],
                                         error_msg |-> SplitTab(line)[2]]))

\* MigrateLogger.load_failed_list over the file on disk
LoadFailedListOf(file) ==
    IF file = NoFile THEN ReturnedList(<< >>) ELSE LoadLines(FileLines(file.text), << >>)

\* f.write(f"{item['obs_path']}\t{item['error_msg']}\n") for every item
RECURSIVE FailedFileText(_)
FailedFileText(list) ==
    IF list = << >> THEN << >>
    ELSE Head(list).obs_path \o <<"TAB">> \o Head(list).error_msg \o <<"NL">>
            \o FailedFileText(Tail(list))

\* keys and error texts of failed objects
FailedKeys == Texts({"a"}, MaxFileText) \ {<< >>}
ErrorTexts == Texts({"a", "TAB", "NL"}, MaxFileText)
FailedEntries == [obs_path : FailedKeys, error_msg : ErrorTexts]

\* failed_list at the end of a run: no entry, one, or two
FailedLists ==
    {<< >>} \cup {<<e>> : e \in FailedEntries} \cup {<<e, f>> : e, f \in FailedEntries}

\* no transfer is under way: the queue is empty, the counters are zero
InitQuiet ==
    /\ bucket_mappings = <<"b1", "b2">>
    /\ max_retry = MaxRetry
    /\ file_limit = NoLimit
    /\ hpc = "idle"
    /\ exit_flag = FALSE
    /\ task_queue = << >>
    /\ unfinished_tasks = 0
    /\ total_files = 0
    /\ processed_files = 0
    /\ bucket_total_files = EmptyDict
    /\ bucket_processed_files = EmptyDict
    /\ lpc = [m \in Mappings |-> "joined"]
    /\ file_count = [m \in Mappings |-> 0]
    /\ bucket_file_generators = << >>
    /\ all_files_to_migrate = << >>
    /\ enq = 0
    /\ wpc = [w \in Workers |-> "exited"]
    /\ wtask = [w \in Workers |-> NoTask]
    /\ attempt = [w \in Workers |-> 0]
    /\ success = [w \in Workers |-> FALSE]
    /\ error_msg = [w \in Workers |-> NoError]
    /\ get_count = [t \in AllTasks |-> 0]
    /\ late_gets = {}
    /\ success_files = 0
    /\ bucket_stats = [b \in Buckets |-> [total |-> 0, success |-> 0, failed |-> 0]]
    /\ log_entries = [bk \in Buckets \X Keys |-> << >>]
    /\ logger_total_files = 0
    /\ InitNoDetail
    /\ target_prefix = << >>
    /\ object_key = << >>
    /\ oss_paths = << >>
    /\ exclude_suffixes = << >>
    /\ contents = << >>
    /\ list_pos = 0
    /\ obs_files = << >>
    /\ stored = << >>
    /\ marker = NoMarker
    /\ list_calls = << >>
    /\ resp = NoResponse
    /\ loaded = NotLoaded
    /\ report = NoReport

\* the run is over and the report is due; the files of the run's date
InitReported ==
    /\ InitQuiet
    /\ InitNoLocks

InitRoundTrip ==
    /\ InitReported
    /\ mpc = "report"
    /\ failed_list \in FailedLists
    /\ failed_files = Len(failed_list)
    /\ failed_file = NoFile

\* MigrateLogger.generate_daily_report: the failed list is written when
\* failed_files > 0
GenerateDailyReport ==
    /\ mpc = "report"
    /\ failed_file' = IF failed_files > 0 THEN File(FailedFileText(failed_list))
                      ELSE failed_file
    /\ report' = ReportDict
    /\ mpc' = "done"
    /\ UNCHANGED <<taskVars, cfgVars, hpc, exit_flag, file_limit, task_queue,
                   unfinished_tasks, progressVars, discVars, workerVars, loggerVars,
                   histVars, target_prefix, object_key, oss_paths, exclude_suffixes,
                   contents, list_pos, obs_files, pageVars, loaded, lockVars>>

\* retry_failed.py: failed_list = migrate_logger.load_failed_list(retry_date)
LoadFailedList ==
    /\ mpc = "done"
    /\ loaded = NotLoaded
    /\ loaded' = LoadFailedListOf(failed_file)
    /\ UNCHANGED <<taskVars, cfgVars, managerVars, workerVars, loggerVars,
                   target_prefix, object_key, oss_paths, exclude_suffixes, contents,
                   list_pos, obs_files, pageVars, failed_file, report,
                   lockVars>>

NextRoundTrip == GenerateDailyReport \/ LoadFailedList

SpecRoundTrip == InitRoundTrip /\ [][NextRoundTrip]_vars

\* load_failed_list over any file of the date, or none
FileTexts == Texts({"a", "TAB", "NL"}, MaxFile)

InitLoad ==
    /\ InitReported
    /\ mpc = "done"
    /\ failed_list = << >>
    /\ failed_files = 0
    /\ failed_file \in {File(text) : text \in FileTexts} \cup {NoFile}

NextLoad == LoadFailedList

SpecLoad == InitLoad /\ [][NextLoad]_vars

(***************************************************************************)
(* The locks.  Every thread of a run in multi-bucket mode is reduced to    *)
(* the sequence of its lock operations and of the steps that start, stop   *)
(* or await other threads; every lock is a threading.Lock, which its owner *)
(* cannot take a second time.                                              *)
(***************************************************************************)
Acq(l) == [op |-> "acquire", lock |-> l]
Rel(l) == [op |-> "release", lock |-> l]
Do(name) == [op |-> name, lock |-> "none"]
\* with l: a block that takes no other lock
WithLock(l) == <<Acq(l), Rel(l)>>

\* start_migration after signal.signal(...): logger.info takes Logger.lock;
\* the totals are set under progress_lock with MigrateLogger.lock inside
MainProgram ==
    WithLock("logger_lock") \o <<Do("start_workers")>>
    \o WithLock("logger_lock") \o <<Do("start_discovery")>>
    \o WithLock("logger_lock") \o <<Do("join_discovery")>>
    \o <<Acq("progress_lock"), Acq("migrate_logger_lock"),
         Rel("migrate_logger_lock"), Rel("progress_lock")>>
    \o WithLock("logger_lock") \o <<Do("start_monitor"), Do("wait")>>
    \o WithLock("logger_lock") \o <<Do("stop_workers"), Do("join_workers")>>
    \o WithLock("progress_lock")
    \o WithLock("migrate_logger_lock")
    \o WithLock("logger_lock")

\* _signal_handler: logger.info, self.exit_flag = True, the drain, logger.info
HandlerProgram ==
    WithLock("logger_lock") \o <<Do("set_exit_flag")>> \o WithLock("logger_lock")

\* worker: migrate_file logs, log_file_migrate takes MigrateLogger.lock,
\* migrate_file logs again, the progress update takes progress_lock
WorkerProgram ==
    WithLock("logger_lock") \o WithLock("migrate_logger_lock") \o WithLock("logger_lock")
    \o WithLock("progress_lock") \o <<Do("loop")>>

\* process_bucket_and_generate: logger.info, then the listing under
\* console_lock (list_objects logs inside it), then logger.info
DiscoveryProgram ==
    WithLock("logger_lock")
    \o <<Acq("console_lock"), Acq("logger_lock"), Rel("logger_lock"), Rel("console_lock")>>
    \o WithLock("logger_lock")

\* monitor_progress: the counters are read under progress_lock, the progress
\* is logged and printed under console_lock; after a stop the counters are
\* read once more
MonitorProgram ==
    WithLock("progress_lock") \o WithLock("logger_lock") \o WithLock("console_lock")
    \o <<Do("loop")>> \o WithLock("progress_lock")

ProgramOf(t) ==
    IF t = "main" THEN MainProgram
    ELSE IF t = HandlerFrame THEN HandlerProgram
    ELSE IF t = "monitor" THEN MonitorProgram
    ELSE IF t \in Workers THEN WorkerProgram
    ELSE DiscoveryProgram

\* the thread whose locks the frame takes
ThreadOf(t) == IF t = HandlerFrame THEN "main" ELSE t

Started(t) == tpc[t] \in 1..Len(ProgramOf(t))
Ended(t) == tpc[t] = Len(ProgramOf(t)) + 1
\* the operation the thread is at
AtOp(t) == ProgramOf(t)[tpc[t]]

\* the frame runs: the main thread's own code is suspended while the handler
\* is on its stack
Runs(t) == Started(t) /\ (t = "main" => ~Started(HandlerFrame))

InitLocks ==
    /\ InitQuiet
    /\ mpc = "start"
    /\ failed_list = << >>
    /\ failed_files = 0
    /\ failed_file = NoFile
    /\ lock_owner = [l \in Locks |-> NoOwner]
    /\ tpc = [t \in LockThreads \cup {HandlerFrame} |-> IF t = "main" THEN 1 ELSE 0]

lockRest == <<taskVars, cfgVars, managerVars, workerVars, loggerVars, target_prefix,
              object_key, oss_paths, exclude_suffixes, contents, list_pos, obs_files,
              pageVars, fileVars>>

Advance(t) == tpc' = [tpc EXCEPT ![t] = @ + 1]

\* lock.acquire(): the lock is free
Acquire(t) ==
    /\ Runs(t)
    /\ AtOp(t).op = "acquire"
    /\ lock_owner[AtOp(t).lock] = NoOwner
    /\ lock_owner' = [lock_owner EXCEPT ![AtOp(t).lock] = ThreadOf(t)]
    /\ Advance(t)
    /\ UNCHANGED lockRest

\* lock.release() at the end of the with block
Release(t) ==
    /\ Runs(t)
    /\ AtOp(t).op = "release"
    /\ lock_owner' = [lock_owner EXCEPT ![AtOp(t).lock] = NoOwner]
    /\ Advance(t)
    /\ UNCHANGED lockRest

\* thread.start() of the workers, of the discovery threads, of the monitor
StartThreads ==
    /\ Runs("main")
    /\ AtOp("main").op \in {"start_workers", "start_discovery", "start_monitor"}
    /\ LET new == IF AtOp("main").op = "start_workers" THEN Workers
                  ELSE IF AtOp("main").op = "start_discovery" THEN {"d1", "d2"}
                  ELSE {"monitor"}
       IN  tpc' = [t \in DOMAIN tpc |->
                     IF t = "main" THEN tpc[t] + 1 ELSE IF t \in new THEN 1 ELSE tpc[t]]
    /\ UNCHANGED <<lock_owner, lockRest>>

\* for thread in bucket_threads: thread.join()
JoinDiscovery ==
    /\ Runs("main")
    /\ AtOp("main").op = "join_discovery"
    /\ Ended("d1") /\ Ended("d2")
    /\ Advance("main")
    /\ UNCHANGED <<lock_owner, lockRest>>

\* the wait loop ends, the sentinels are put, thread.join(timeout=5) returns
MainGoesOn ==
    /\ Runs("main")
    /\ AtOp("main").op \in {"wait", "stop_workers", "join_workers"}
    /\ Advance("main")
    /\ UNCHANGED <<lock_owner, lockRest>>

\* the end of one pass of a worker's or the monitor's loop: another pass, or
\* the loop is left
Loop(t) ==
    /\ Runs(t)
    /\ AtOp(t).op = "loop"
    /\ \/ tpc' = [tpc EXCEPT ![t] = 1]
       \/ Advance(t)
    /\ UNCHANGED <<lock_owner, lockRest>>

\* SIGINT or SIGTERM is delivered while start_migration runs
HandlerEnters ==
    /\ Started("main")
    /\ tpc[HandlerFrame] = 0
    /\ tpc' = [tpc EXCEPT ![HandlerFrame] = 1]
    /\ UNCHANGED <<lock_owner, lockRest>>

\* self.exit_flag = True and the drain of the queue
HandlerSetsFlag ==
    /\ Runs(HandlerFrame)
    /\ AtOp(HandlerFrame).op = "set_exit_flag"
    /\ exit_flag' = TRUE
    /\ Advance(HandlerFrame)
    /\ UNCHANGED <<lock_owner, taskVars, cfgVars, mpc, hpc, file_limit, task_queue,
                   unfinished_tasks, progressVars, discVars, histVars, workerVars,
                   loggerVars, target_prefix, object_key, oss_paths, exclude_suffixes,
                   contents, list_pos, obs_files, pageVars, fileVars>>

NextLocks ==
    \/ \E t \in LockThreads \cup {HandlerFrame} : Acquire(t)
    \/ \E t \in LockThreads \cup {HandlerFrame} : Release(t)
    \/ StartThreads
    \/ JoinDiscovery
    \/ MainGoesOn
    \/ \E t \in LockThreads : Loop(t)
    \/ HandlerEnters
    \/ HandlerSetsFlag

SpecLocks == InitLocks /\ [][NextLocks]_vars

(***************************************************************************)
(* Claims about the scheduler.                                             *)
(***************************************************************************)
\* the object a task is about, as log_file_migrate names it
ObjectOf(task) == <<BucketOf(task), task.key>>

\* the worker holds a task it has dequeued
Holds(w) == wtask[w] # NoTask

\* C1: every task put on the queue is returned by queue.get at most once, and
\* no two workers hold the same task at the same time.
C1_TaskClaimedByOneWorker ==
    /\ \A t \in AllTasks : get_count[t] <= 1
    /\ \A w1, w2 \in Workers : (w1 # w2 /\ Holds(w1)) => wtask[w1] # wtask[w2]

\* two workers are inside transfers at once while the stop handler drains
C1_Witness ==
    /\ \A w \in Workers : wpc[w] = "migrate"
    /\ hpc = "drain"

\* C2: at most one outcome record is written per (source bucket, key), and a
\* record is written only by a worker whose retry loop has ended: after a
\* successful attempt or after the max_retry-th attempt.
C2_OneOutcomeAfterAttempts ==
    /\ [](\A o \in Buckets \X Keys : Len(log_entries[o]) <= 1)
    /\ [][log_entries' # log_entries =>
            \E w \in Workers :
                /\ wpc[w] = "migrate" /\ wpc'[w] = "close"
                /\ success[w] \/ attempt[w] = max_retry
                /\ \E e \in {error_msg[w]} :
                      log_entries' =
                          [log_entries EXCEPT ![ObjectOf(wtask[w])] =
                              Append(@, [status |-> IF success[w] THEN "success" ELSE "failed",
                                         error_msg |-> e])]]_vars

\* one object was recorded failed after its last attempt and another success,
\* both listed under the same source bucket by two mappings
C2_Witness ==
    /\ bucket_mappings = <<"b1", "b1">>
    /\ Len(log_entries[<<"b1", 1>>]) = 1 /\ log_entries[<<"b1", 1>>][1].status = "failed"
    /\ Len(log_entries[<<"b1", 2>>]) = 1 /\ log_entries[<<"b1", 2>>][1].status = "success"

\* C3: a task a worker has counted in processed_files has exactly one outcome
\* recorded by log_file_migrate.
C3_CountedTaskHasOutcome ==
    \A w \in Workers :
        wpc[w] = "task_done" => Len(log_entries[ObjectOf(wtask[w])]) = 1

\* the run has reached the point where the final report is generated and no
\* stop was requested
ReportWithoutCancel == mpc = "report" /\ ~exit_flag

\* C4: at the final report of a run without cancellation
\* processed_files = total_files.
C4_ProcessedEqualsTotal ==
    ReportWithoutCancel => processed_files = total_files

\* a report over two objects, one of them counted by the except block
C4_Witness ==
    /\ ReportWithoutCancel
    /\ total_files = 2
    /\ success_files + failed_files = 1

\* C5: at the final report of a run without cancellation every bucket that
\* contributed tasks has bucket_processed_files = bucket_total_files.
C5_BucketProcessedEqualsTotal ==
    ReportWithoutCancel =>
        \A b \in CountedBuckets :
            DictGet(bucket_processed_files, b) = DictGet(bucket_total_files, b)

\* no worker is between recording an outcome and counting it
NoUpdateInFlight == \A w \in Workers : wpc[w] # "close"

\* C6: when no progress update is in flight, processed_files equals the
\* logger's success_files + failed_files, globally and per bucket.
C6_ProcessedIsSuccessPlusFailed ==
    NoUpdateInFlight =>
        /\ processed_files = success_files + failed_files
        /\ \A b \in Buckets :
              DictGet(bucket_processed_files, b)
                  = bucket_stats[b].success + bucket_stats[b].failed

\* the state a detailed transfer starts from, but for the target store, which
\* the scheduler's model leaves out
TaskStartReached ==
    /\ bucket_mappings = <<"b1", "b2">>
    /\ mpc = "wait" /\ hpc = "idle" /\ ~exit_flag
    /\ task_queue = << >> /\ unfinished_tasks = 1
    /\ total_files = 1 /\ processed_files = 0
    /\ bucket_total_files = [b \in {"b1"} |-> 1]
    /\ bucket_processed_files = [b \in {"b1"} |-> 0]
    /\ bucket_file_generators = << >>
    /\ all_files_to_migrate = <<TheTask>> /\ enq = 1
    /\ get_count = [t \in AllTasks |-> IF t = TheTask THEN 1 ELSE 0]
    /\ wpc = [w \in Workers |-> IF w = TheWorker THEN "migrate" ELSE "get"]
    /\ wtask = [w \in Workers |-> IF w = TheWorker THEN TheTask ELSE NoTask]
    /\ attempt[TheWorker] = 0 /\ ~success[TheWorker]
    /\ success_files = 0 /\ failed_files = 0 /\ logger_total_files = 1

(***************************************************************************)
(* Claims about the stop request.                                          *)
(***************************************************************************)
\* start_migration has reached its final report
AtReport == mpc \in {"report", "done"}

\* C13: a task that queue.get returns after the exit flag is set is never
\* transferred, recorded or counted: the worker that got it goes from the second
\* check of the flag straight to its exit, the task has no outcome record, and
\* at the final report processed_files is below total_files when there was such
\* a task.
C13_LateTasksNeverProcessed ==
    /\ [](/\ \A t \in late_gets :
                /\ Len(log_entries[ObjectOf(t)]) = 0
                /\ \A w \in Workers : wtask[w] = t => wpc[w] = "got"
          /\ (AtReport /\ late_gets # {}) => processed_files < total_files)
    /\ [][\A w \in Workers :
             (wpc[w] = "got" /\ exit_flag /\ wpc'[w] # "got") =>
                 /\ wpc'[w] = "exited"
                 /\ processed_files' = processed_files
                 /\ log_entries' = log_entries]_vars

\* a worker has dequeued a task after the flag was set, after another task
\* was processed
C13_Witness ==
    /\ \E w \in Workers : wpc[w] = "got" /\ wtask[w] \in late_gets
    /\ processed_files = 1
    /\ hpc = "idle"

\* the transfer tasks on the queue (the None sentinels left out)
QueuedTasks == {i \in 1..Len(task_queue) : task_queue[i] # None}

\* C14: once the stop handler has set the exit flag and its drain has returned,
\* the queue holds no transfer task. The handler runs on the main thread and
\* leaves the queue empty, so a task on the queue after its return is a task
\* put there after the stop request.
C14_NoFeedAfterStop ==
    (exit_flag /\ hpc = "idle") => QueuedTasks = {}

\* the worker is inside a transfer, or between its outcome record and the
\* progress update
TransferUnfinished(w) == wpc[w] \in {"migrate", "close"}

\* C15: a transfer that is in progress when the stop is requested runs to its
\* recorded and counted outcome before its worker ends: the process never ends
\* with a worker still inside a transfer or before its progress update.
C15_InFlightTransferFinishes ==
    mpc = "exit" => \A w \in Workers : ~TransferUnfinished(w)

\* a step of _signal_handler: its entry, its return, or one pass of its drain
\* loop (the main thread is inside the handler, and no worker took the item)
HandlerStep ==
    \/ hpc' # hpc
    \/ hpc = "drain" /\ task_queue' # task_queue /\ wpc' = wpc

\* C16: a step of the stop handler taken when the exit flag is already set
\* leaves the flag set and changes nothing but the queue, its count of
\* unfinished items and the record of what was dequeued: no outcome is
\* recorded, no progress or logger counter moves, and neither the main thread
\* nor a worker changes its position; what it takes off the queue is what the
\* workers would discard (C13).
C16_StopIsIdempotent ==
    [][(exit_flag /\ HandlerStep) =>
          /\ exit_flag'
          /\ UNCHANGED <<progressVars, loggerVars, workerVars, discVars, taskVars,
                         cfgVars, textVars, mpc, file_limit>>]_vars

\* a second invocation, made while the workers are being joined, has taken the
\* stop sentinels off the queue before any worker saw one
C16_Witness ==
    /\ mpc = "join" /\ hpc = "drain" /\ task_queue = << >>
    /\ total_files = 1 /\ processed_files = 0 /\ late_gets # {}
    /\ \A w \in Workers : wpc[w] # "exited"

(***************************************************************************)
(* Claims about one transfer (SpecTask).                                   *)
(***************************************************************************)
\* migrate_file / migrate_file_stream has returned
Returned == wpc[TheWorker] = "close"

\* the records log_file_migrate wrote for the task
Outcomes == log_entries[ObjectOf(TheTask)]

AllAttemptsFailed == \A i \in 1..Len(results) : ~results[i].ok

\* C7: when every attempt fails, exactly max_retry attempts are made and the
\* one record written has status failed and the error text of the last attempt.
C7_AllFailedLastError ==
    (Returned /\ AllAttemptsFailed) =>
        /\ Len(results) = max_retry
        /\ source_gets = max_retry
        /\ Len(Outcomes) = 1
        /\ Outcomes[1].status = "failed"
        /\ Outcomes[1].error_msg = results[max_retry].err
        /\ Outcomes[1].error_msg.attempt = max_retry

\* three attempts of a streamed transfer failed, each in a different way
C7_Witness ==
    /\ Returned /\ streaming /\ max_retry = 3 /\ Len(results) = 3
    /\ results[1].err.kind = "fetch_status"
    /\ results[2].err.kind = "put_raises"
    /\ results[3].err.kind = "md5_mismatch"

\* C8: when the first j attempts fail and attempt j+1 succeeds, the outcome is
\* success after exactly j+1 attempts, none follows the success, and exactly j
\* waits of retry_interval each were made.
C8_RetryThenSuccess ==
    (Returned /\ \E i \in 1..Len(results) : results[i].ok) =>
        LET n == Len(results)
        IN  /\ results[n].ok
            /\ \A i \in 1..(n - 1) : ~results[i].ok
            /\ source_gets = n
            /\ Len(Outcomes) = 1
            /\ Outcomes[1].status = "success"
            /\ sleeps = [i \in 1..(n - 1) |-> retry_interval]

\* two failed attempts, then a success, with a retry interval that is not the
\* default
C8_Witness ==
    /\ Returned /\ retry_interval = 1
    /\ Len(results) = 3 /\ ~results[1].ok /\ ~results[2].ok /\ results[3].ok
    /\ sleeps = <<1, 1>>

\* the target key held an object with the descriptor's etag when the transfer
\* began
UpToDate0 == target0.present /\ target0.hash = SrcEtag

\* a failure of the source fetch or of a HEAD request on the target
FetchOrHeadFailure == {"fetch_raises", "fetch_status", "exists_raises", "head_raises"}

\* C9 as claimed: for an up-to-date target no PUT is made and the outcome is
\* success on the first attempt.
C9_SkipOnFirstAttempt ==
    (UpToDate0 /\ Returned) =>
        /\ put_requests = 0
        /\ results = <<[ok |-> TRUE, err |-> NoError]>>
        /\ Outcomes[1].status = "success"

\* C9, amended: for an up-to-date target no PUT is ever made, an attempt fails
\* only in the source fetch or in a HEAD request on the target, and the outcome
\* is success on the first attempt in which neither fails (failed when there is
\* none within max_retry attempts).
C9_SkipWithoutPut ==
    UpToDate0 =>
        /\ put_requests = 0
        /\ target = target0
        /\ \A i \in 1..Len(results) :
              ~results[i].ok => results[i].err.kind \in FetchOrHeadFailure
        /\ Returned =>
              LET n == Len(results)
              IN  /\ \A i \in 1..(n - 1) : ~results[i].ok
                  /\ Len(Outcomes) = 1
                  /\ Outcomes[1].status = IF results[n].ok THEN "success" ELSE "failed"
                  /\ ~results[n].ok => n = max_retry

\* an up-to-date target with a quoted ETag header: the source fetch failed
\* once, then the upload was skipped
C9_Witness ==
    /\ UpToDate0 /\ target0.quoted /\ Returned
    /\ Len(results) = 2 /\ results[1].err.kind = "fetch_raises" /\ results[2].ok
    /\ put_requests = 0

\* C10 as claimed: for an up-to-date target no get_object / get_object_stream
\* call is made on the source.
C10_NoFetchWhenUpToDate ==
    UpToDate0 => source_gets = 0

\* the etag check of the target is running
Checking == wpc[TheWorker] \in {"upload", "head"}

\* C10, amended: the check of the target is made inside upload_file /
\* upload_file_stream, after the attempt's fetch call on the source: every
\* attempt makes one get_object / get_object_stream call, and for an up-to-date
\* target the stream is never read and nothing is PUT.
C10_FetchBeforeCheck ==
    UpToDate0 =>
        /\ Checking => (source_gets = attempt[TheWorker] /\ source_gets >= 1)
        /\ Returned => source_gets = Len(results)
        /\ stream_reads = 0
        /\ put_requests = 0

\* a streamed transfer to an up-to-date target succeeded at once: one fetch
\* call, no read of the stream
C10_Witness ==
    /\ UpToDate0 /\ streaming /\ Returned
    /\ results = <<[ok |-> TRUE, err |-> NoError]>>
    /\ source_gets = 1 /\ stream_reads = 0

\* every attempt made so far ended in a PUT answered 200 with an ETag other
\* than the descriptor's
MismatchOnEveryAttempt ==
    \A i \in 1..Len(results) : results[i].err.kind = "md5_mismatch"

\* C12: an attempt whose PUT returns an ETag other than the source etag is a
\* failed attempt: it is followed by a wait of retry_interval and a new attempt
\* while attempts remain, and when every attempt ends that way the outcome is
\* failed, after max_retry attempts and PUTs, with the mismatch as its error;
\* an attempt succeeds only when the ETag the target last returned is the source
\* etag.
C12_MismatchRetriedThenFailed ==
    /\ (results # << >> /\ results[Len(results)].ok) =>
          (target.present /\ target.hash = SrcEtag)
    /\ \A i \in 1..Len(results) :
          results[i].err.kind = "md5_mismatch" =>
              /\ ~results[i].ok
              /\ i < max_retry => (Len(sleeps) >= i /\ sleeps[i] = retry_interval)
    /\ (Returned /\ MismatchOnEveryAttempt) =>
          /\ Len(results) = max_retry
          /\ put_requests = max_retry
          /\ Len(sleeps) = max_retry - 1
          /\ Len(Outcomes) = 1
          /\ Outcomes[1].status = "failed"
          /\ Outcomes[1].error_msg = Err("md5_mismatch", max_retry)

\* three attempts, each with a PUT answered by another ETag, the target first
\* holding nothing
C12_Witness ==
    /\ Returned /\ max_retry = 3 /\ Len(results) = 3 /\ MismatchOnEveryAttempt
    /\ ~target0.present /\ target.hash = OtherEtag
    /\ Outcomes[1].status = "failed"

(***************************************************************************)
(* Claims about a second run (SpecRerun).                                  *)
(***************************************************************************)
\* the second run of the object's transfer has begun, after a first run that
\* recorded success
SecondRunAfterSuccess ==
    /\ Len(Outcomes) >= 1
    /\ Outcomes[1].status = "success"
    /\ Len(Outcomes) = 1 => wpc[TheWorker] # "close"

\* no request of the current run to either store has failed
StoresDidNotFail == \A i \in 1..Len(results) : results[i].ok

\* C11: in a second run over an object whose first run recorded success (the
\* object's target key being written by this object's transfer only), nothing is
\* PUT to the target, and when no store request fails the run records success
\* for the object, after one attempt, and no failure.
C11_SecondRunSkips ==
    SecondRunAfterSuccess =>
        /\ put_requests = 0
        /\ target = target0
        /\ (Len(Outcomes) = 2 /\ StoresDidNotFail) =>
              /\ Outcomes[2].status = "success"
              /\ Len(results) = 1
              /\ success_files = 1
              /\ failed_files = 0

\* the first run uploaded the object after a failed PUT, the second run
\* skipped it
C11_Witness ==
    /\ Len(Outcomes) = 2
    /\ Outcomes[1].status = "success" /\ Outcomes[1].error_msg.kind = "put_raises"
    /\ Outcomes[2].status = "success" /\ StoresDidNotFail
    /\ put_requests = 0 /\ source_gets = 1

(***************************************************************************)
(* Claims about discovery and the collection loop (SpecCollect, Spec).     *)
(***************************************************************************)
\* the step of CollectFiles
CollectStep == mpc = "join_buckets" /\ mpc' = "enqueue"

\* tasks of mapping m among the first p of seq
TasksOf(seq, p, m) == Cardinality({i \in 1..p : seq[i].m = m})

\* after every prefix, two generators that both still hold objects have given
\* the same number of tasks, or the one stored earlier has given one more
BalancedPrefixes(gens, seq) ==
    \A p \in 0..Len(seq) : \A i, j \in DOMAIN gens :
        (/\ i < j
         /\ TasksOf(seq, p, gens[i].m) < gens[i].n
         /\ TasksOf(seq, p, gens[j].m) < gens[j].n)
        => TasksOf(seq, p, gens[i].m) - TasksOf(seq, p, gens[j].m) \in {0, 1}

\* the k-th task of a mapping is its k-th object
ObjectsInOrder(seq) ==
    \A p \in 1..Len(seq) : seq[p].key = TasksOf(seq, p, seq[p].m)

\* a generator holding a single object has its task among the first M, M the
\* number of mappings, unless the item cap has left it out
SingleObjectEarly(gens, seq, limit) ==
    \A i \in DOMAIN gens : gens[i].n = 1 =>
        /\ \A p \in 1..Len(seq) : seq[p].m = gens[i].m => p <= Len(bucket_mappings)
        /\ (limit = NoLimit \/ limit >= Len(bucket_mappings)) =>
              \E p \in 1..Len(seq) : seq[p].m = gens[i].m

\* C17: the tasks are collected, and put on the queue, in round-robin order
\* over the buckets: after every prefix of the order two buckets that both still
\* have objects left differ by at most one task, an exhausted bucket leaves the
\* rotation without a turn of the others skipped or repeated, and a bucket with
\* a single object has its task among the first M tasks, M the number of mappings
C17_RoundRobinOrder ==
    /\ [][CollectStep =>
            /\ BalancedPrefixes(bucket_file_generators, all_files_to_migrate')
            /\ ObjectsInOrder(all_files_to_migrate')
            /\ SingleObjectEarly(bucket_file_generators, all_files_to_migrate', file_limit)]_vars
    /\ [](mpc \in {"enqueue", "check"} =>
            task_queue = SubSeq(all_files_to_migrate, 1, enq))

\* three buckets of one, three and two objects, stored in this order, all enqueued
C17_Witness ==
    /\ mpc = "check"
    /\ file_limit = NoLimit
    /\ task_queue = << [m |-> 2, key |-> 1], [m |-> 3, key |-> 1], [m |-> 1, key |-> 1],
                        [m |-> 3, key |-> 2], [m |-> 1, key |-> 2], [m |-> 3, key |-> 3] >>

\* no item cap, no stop request and every listing has returned
PlainDiscovery ==
    /\ file_limit = NoLimit
    /\ ~exit_flag
    /\ \A m \in Mappings : lpc[m] = "done"

\* C18: with no item cap, no cancellation and no listing error, and whether or
\* not two mappings name the same source bucket, the tasks collected for the
\* queue are exactly the objects each mapping's listing returned, each paired
\* with its mapping and each exactly once
C18_OneTaskPerListedObject ==
    [][(CollectStep /\ PlainDiscovery) =>
          /\ ObjectsInOrder(all_files_to_migrate')
          /\ \A m \in Mappings :
                TasksOf(all_files_to_migrate', Len(all_files_to_migrate'), m) = file_count[m]]_vars

\* C19: with an item cap L set, at most L tasks are put on the queue and
\* total_files never exceeds L, with bucket mappings configured and in
\* single-bucket mode
C19_ItemCapHolds ==
    file_limit # NoLimit => (enq <= file_limit /\ total_files <= file_limit)

\* some listing has raised; no item cap and no stop request
OneListingFailed ==
    /\ file_limit = NoLimit
    /\ ~exit_flag
    /\ \E m \in Mappings : lpc[m] = "failed"
    /\ \A m \in Mappings : lpc[m] \in {"done", "failed"}

\* C20: when the listing of a mapping raises, that mapping gives no task and
\* every object listed for every other mapping is collected once, put on the
\* queue, taken by a worker and counted by the time of the report
C20_ListingFailureIsolated ==
    /\ [][(CollectStep /\ OneListingFailed) =>
            /\ ObjectsInOrder(all_files_to_migrate')
            /\ \A m \in Mappings :
                  TasksOf(all_files_to_migrate', Len(all_files_to_migrate'), m) =
                      IF lpc[m] = "done" THEN file_count[m] ELSE 0]_vars
    /\ [](mpc \in {"check", "wait"} =>
            /\ enq = Len(all_files_to_migrate)
            /\ total_files = Len(all_files_to_migrate))
    /\ []((AtReport /\ ~exit_flag) =>
            /\ processed_files = total_files
            /\ \A i \in 1..Len(all_files_to_migrate) : get_count[all_files_to_migrate[i]] = 1)

(***************************************************************************)
(* Claims about the choice of the transfer method (SpecDispatch).          *)
(***************************************************************************)
\* the worker has made its choice for the task
Dispatched == wpc[TheWorker] # "got"

\* C21: a task goes to migrate_file_stream exactly when the object's size is
\* strictly greater than the streaming threshold and to migrate_file
\* otherwise, a size equal to the threshold included; the fetched object goes
\* to upload_file on the one path and to the reads of upload_file_stream on
\* the other, never to both
C21_StreamIffAboveThreshold ==
    Dispatched =>
        /\ streaming <=> file_size > (IF streaming_threshold = NotConfigured
                                      THEN 50 * MB ELSE streaming_threshold)
        /\ stream_reads > 0 => streaming
        /\ (wpc[TheWorker] = "upload" /\ stream_reads = 0) => (in_upload_file <=> ~streaming)

\* an object of exactly the configured threshold size is in upload_file
C21_Witness ==
    /\ streaming_threshold = 10 * MB
    /\ file_size = 10 * MB
    /\ wpc[TheWorker] = "upload"
    /\ in_upload_file

\* C22: with no streaming threshold configured the threshold is 10 times the
\* configured chunk size
C22_DefaultThresholdTenChunks ==
    (Dispatched /\ streaming_threshold = NotConfigured) =>
        (streaming <=> file_size > 10 * chunk_size)

(***************************************************************************)
(* Claims about the progress of discovery and of the run (Spec).           *)
(***************************************************************************)
\* C23: the discovery sessions of different mappings list concurrently: while
\* one session is in the middle of its listing, another that has started can
\* enter its own listing without waiting for the first to finish
C23_ListingsOverlap ==
    \A m1, m2 \in Mappings :
        (m1 # m2 /\ lpc[m1] = "listing" /\ lpc[m2] = "started") => ENABLED BeginListing(m2)

\* C24: the progress total grows during discovery: the objects a session has
\* listed are in total_files, and in the total of its bucket, while other
\* sessions are still listing
C24_TotalGrowsDuringDiscovery ==
    \A m \in Mappings :
        (lpc[m] = "done" /\ \E m2 \in Mappings : lpc[m2] \in {"started", "listing"}) =>
            /\ total_files >= file_count[m]
            /\ DictGet(bucket_total_files, bucket_mappings[m]) >= file_count[m]

\* the main thread has put the sentinels and no stop was requested
NaturalStop == mpc = "join" /\ ~exit_flag

\* worker w takes the item at the head of the queue in this step
Gets(w) == wpc[w] = "get" /\ wpc'[w] # "get" /\ task_queue # << >> /\ task_queue' = Tail(task_queue)

\* C25: when all enqueued tasks are finished the scheduler puts exactly one
\* None per worker on the queue; a worker that gets None exits and takes
\* nothing more from the queue, so it uses one None at most; and every worker
\* exits in the end
C25_SentinelsStopWorkers ==
    /\ [][(mpc = "wait" /\ mpc' = "join") =>
            /\ exit_flag \/ (unfinished_tasks = 0 /\ task_queue = << >>)
            /\ task_queue' = task_queue \o [i \in 1..Cardinality(Workers) |-> None]]_vars
    /\ [](NaturalStop => \A i \in 1..Len(task_queue) : task_queue[i] = None)
    /\ [][\A w \in Workers :
            /\ (Gets(w) /\ Head(task_queue) = None) =>
                  (wpc'[w] = "exited" /\ wtask' = wtask /\ processed_files' = processed_files)
            /\ wpc[w] = "exited" => (wpc'[w] = "exited" /\ wtask'[w] = wtask[w])]_vars
    /\ NaturalStop ~> (\A w \in Workers : wpc[w] = "exited")

\* both workers have left on a sentinel after a run that processed its task
C25_Witness ==
    /\ mpc = "report"
    /\ ~exit_flag
    /\ processed_files = 1
    /\ task_queue = << >>
    /\ \A w \in Workers : wpc[w] = "exited"

\* C26: when the report is built every worker has exited, or has been reported
\* as not terminated after its join timeout: the report is never built
\* silently while a worker is still running a transfer
C26_NoSilentReport ==
    AtReport => \A w \in Workers : wpc[w] = "exited" \/ AnomalyReported(w)

\* every collected task has one outcome record and it is a success
AllSucceeded ==
    \A i \in 1..Len(all_files_to_migrate) :
        LET entries == log_entries[ObjectOf(all_files_to_migrate[i])]
        IN  Len(entries) = 1 /\ entries[1].status = "success"

\* no two mappings name the same source bucket
DistinctSources ==
    \A m1, m2 \in Mappings : bucket_mappings[m1] = bucket_mappings[m2] => m1 = m2

\* C27: a run without cancellation over N >= 1 listed objects whose transfers
\* all succeed reaches the report with total = processed = success = N and
\* failed = 0; and every run without cancellation that has something to
\* transfer reaches the report
C27_AllSucceedTotals ==
    /\ [][(CollectStep /\ PlainDiscovery /\ DistinctSources) =>
            \A m \in Mappings :
                TasksOf(all_files_to_migrate', Len(all_files_to_migrate'), m) = file_count[m]]_vars
    /\ []((AtReport /\ ~exit_flag /\ AllSucceeded) =>
            /\ Len(all_files_to_migrate) >= 1
            /\ total_files = Len(all_files_to_migrate)
            /\ logger_total_files = Len(all_files_to_migrate)
            /\ processed_files = Len(all_files_to_migrate)
            /\ success_files = Len(all_files_to_migrate)
            /\ failed_files = 0)
    /\ <>(AtReport \/ exit_flag \/ mpc = "returned")
    /\ [](mpc = "returned" => total_files = 0)

\* two objects transferred with success, the report reached
C27_Witness ==
    /\ mpc = "done"
    /\ ~exit_flag
    /\ AllSucceeded
    /\ total_files = 2 /\ processed_files = 2 /\ success_files = 2 /\ failed_files = 0

(***************************************************************************)
(* Claims about the final report.                                          *)
(***************************************************************************)
\* the task has a success line in the jsonl log
Succeeded(task) ==
    \E j \in 1..Len(log_entries[ObjectOf(task)]) :
        log_entries[ObjectOf(task)][j].status = "success"

\* the entries of failed_list that carry the key
FailedEntriesFor(key) ==
    {i \in 1..Len(failed_list) : failed_list[i].obs_path = key}

\* the tasks of the run with that key that did not end in success
TasksNotSucceeded(key) ==
    {i \in 1..Len(all_files_to_migrate) :
        /\ all_files_to_migrate[i].key = key
        /\ ~Succeeded(all_files_to_migrate[i])}

\* C28: at the final report of a run that was not cancelled, failed_list has
\* exactly one entry per task that did not end in success and none for a task
\* that did, each entry carries the key and the error text recorded for that
\* object, and failed_files is the length of failed_list.
C28_FailedListExact ==
    (AtReport /\ ~exit_flag) =>
        /\ failed_files = Len(failed_list)
        /\ \A key \in Keys :
              Cardinality(FailedEntriesFor(key)) = Cardinality(TasksNotSucceeded(key))
        /\ \A i \in 1..Len(failed_list) :
              \E b \in Buckets :
                 \E j \in 1..Len(log_entries[<<b, failed_list[i].obs_path>>]) :
                    log_entries[<<b, failed_list[i].obs_path>>][j] =
                       [status |-> "failed", error_msg |-> failed_list[i].error_msg]

(***************************************************************************)
(* Claims about the texts of keys.                                         *)
(***************************************************************************)
\* the text without the slashes at its end: what is left ends with no slash
\* and only slashes were taken away
WithoutTrailingSlashes(text) ==
    CHOOSE p \in {SubSeq(text, 1, n) : n \in 0..Len(text)} :
        /\ p = << >> \/ p[Len(p)] # "/"
        /\ \A i \in (Len(p) + 1)..Len(text) : text[i] = "/"

\* the text without the slashes at its beginning
WithoutLeadingSlashes(text) ==
    CHOOSE k \in {SubSeq(text, n + 1, Len(text)) : n \in 0..Len(text)} :
        /\ k = << >> \/ k[1] # "/"
        /\ \A i \in 1..(Len(text) - Len(k)) : text[i] = "/"

\* C29: get_target_path returns the key unchanged when no target prefix is
\* configured, and otherwise the prefix without its trailing slashes, one "/",
\* and the key without its leading slashes ("migrated/" and "data/file.txt"
\* give "migrated/data/file.txt"); every call made for the same task returns
\* the same path.
C29_TargetPath ==
    /\ \A i \in 1..Len(oss_paths) :
          /\ target_prefix = << >> => oss_paths[i] = object_key
          /\ target_prefix # << >> =>
                oss_paths[i] = WithoutTrailingSlashes(target_prefix) \o <<"/">>
                                  \o WithoutLeadingSlashes(object_key)
          /\ oss_paths[i] = oss_paths[1]
    /\ TargetPath(<<"migrated", "/">>, <<"data", "/", "file.txt">>)
          = <<"migrated", "/", "data", "/", "file.txt">>

\* three calls for a key with a leading slash under a prefix with a trailing
\* slash
C29_Witness ==
    /\ Len(oss_paths) = 3
    /\ target_prefix = <<"a", "/">>
    /\ object_key = <<"/", "/", "a">>
    /\ oss_paths[3] = <<"a", "/", "a">>

\* the text ends with the suffix: some text followed by the suffix gives it
IsSuffixOf(suffix, text) ==
    \E n \in 0..Len(text) : text = SubSeq(text, 1, n) \o suffix

\* the key ends with one of the configured excluded suffixes
Excluded(key) ==
    \E i \in 1..Len(exclude_suffixes) : IsSuffixOf(exclude_suffixes[i], key)

\* the key of the listed object a task of the first mapping stands for
KeyTextOf(task) == obs_files[task.key]

\* C30: list_objects yields a listed object if and only if its key ends with
\* none of the configured excluded suffixes, compared exactly and with case
\* (under [".log", ".log.gz"], "file2.log" and "file3.log.gz" are dropped and
\* "file1.txt" is kept), and no excluded object becomes a task.
C30_ExcludedSuffixesDropped ==
    /\ obs_files = SelectSeq(SubSeq(contents, 1, list_pos), LAMBDA key : ~Excluded(key))
    /\ \A i \in 1..Len(task_queue) :
          /\ task_queue[i].key \in 1..Len(obs_files)
          /\ ~Excluded(KeyTextOf(task_queue[i]))
    /\ LET suffixes == << <<".log">>, <<".log", ".gz">> >>
       IN  /\ ShouldExclude(<<"file2", ".log">>, suffixes)
           /\ ShouldExclude(<<"file3", ".log", ".gz">>, suffixes)
           /\ ~ShouldExclude(<<"file1", ".txt">>, suffixes)

\* "aa" was dropped for the suffix "a", "aA" was kept although it ends with
\* the same letter in the other case, and it became the only task
C30_Witness ==
    /\ exclude_suffixes = << <<"a">> >>
    /\ contents = << <<"a", "a">>, <<"a", "A">> >>
    /\ obs_files = << <<"a", "A">> >>
    /\ Len(task_queue) = 1

\* the pages a bucket of n objects is served in
PagesOf(n) == IF n = 0 THEN 1 ELSE (n + MaxKeys - 1) \div MaxKeys

\* the objects of the pages list_objects has gone through so far
ListedSoFar ==
    IF list_calls = << >> \/ lpc[1] = "failed" THEN 0
    ELSE (Len(list_calls) - 1) * MaxKeys + list_pos

C32_FailedListRoundTrip ==
    loaded # NotLoaded =>
        loaded = ReturnedList([i \in 1..Len(failed_list) |->
                             [obs_bucket |-> "unknown",
                              obs_path |-> failed_list[i].obs_path,
                              error_msg |-> failed_list[i].error_msg]])

\* a line of the file without a tab
NoTabLine(line) == StripText(line) # << >> /\ \A i \in 1..Len(line) : line[i] # "TAB"

\* C33: load_failed_list does not raise: without a file it returns the empty
\* list, and a line without a tab gives an entry whose obs_path is the whole
\* line and whose error_msg is the format-error text.
C33_LoadNeverRaises ==
    loaded # NotLoaded =>
        /\ loaded # Raised
        /\ failed_file = NoFile => loaded = ReturnedList(<< >>)
        /\ failed_file # NoFile =>
              \A i \in 1..Len(FileLines(failed_file.text)) :
                 NoTabLine(FileLines(failed_file.text)[i]) =>
                    \E j \in 1..Len(loaded.entries) :
                       /\ loaded.entries[j].obs_path = StripText(FileLines(failed_file.text)[i])
                       /\ loaded.entries[j].error_msg = <<"format error">>

(***************************************************************************)
(* Claims about the recorded outcomes and the counters.                    *)
(***************************************************************************)
\* C34: an outcome recorded with status success has an empty error text, also
\* after failed attempts; only an outcome with status failed has an error text.
C34_SuccessHasNoErrorText ==
    \A bk \in Buckets \X Keys :
        \A j \in 1..Len(log_entries[bk]) :
            log_entries[bk][j].error_msg # NoError => log_entries[bk][j].status = "failed"

\* C35: in every state of a run processed_files <= total_files and, for every
\* bucket, bucket_processed_files[b] <= bucket_total_files[b].
C35_ProcessedWithinTotals ==
    /\ processed_files <= total_files
    /\ \A b \in Buckets :
          DictGet(bucket_processed_files, b) <= DictGet(bucket_total_files, b)

(***************************************************************************)
(* Claims about the locks and the threads.                                 *)
(***************************************************************************)
\* the frame executes an acquire of a lock that is held
Blocked(t) ==
    /\ Runs(t)
    /\ AtOp(t).op = "acquire"
    /\ lock_owner[AtOp(t).lock] # NoOwner

\* C36: there is no state in which the threads of a set each wait for a lock
\* held by a thread of the set.
C36_NoLockCycle ==
    ~ \E waiting \in SUBSET (LockThreads \cup {HandlerFrame}) :
         /\ waiting # {}
         /\ \A t \in waiting :
               /\ Blocked(t)
               /\ \E u \in waiting : ThreadOf(u) = lock_owner[AtOp(t).lock]

\* start_migration has returned, with or without a report
StartMigrationReturned == mpc \in {"returned", "done"}

\* the workers that still run their loop
RunningWorkers == {w \in Workers : wpc[w] # "exited"}

\* the None sentinels waiting on the queue
SentinelsQueued == Len(SelectSeq(task_queue, LAMBDA item : item = None))

\* C37: whenever start_migration has returned, every worker that still runs
\* has been told to stop, by the exit flag or by a sentinel waiting for it on
\* the queue; this includes the run in which discovery finds no object.
C37_WorkersToldToStop ==
    StartMigrationReturned =>
        exit_flag \/ Cardinality(RunningWorkers) <= SentinelsQueued

\* the report as its holder reads it: the copied numbers, and the logger's
\* list and per-bucket dicts that it refers to
ReportRead ==
    [failed_files |-> report.failed_files, failed_list |-> failed_list,
     bucket_stats |-> bucket_stats]

\* C38: every report generate_daily_report has returned is consistent, also
\* when workers still finish transfers after a cancellation: its failed_files
\* is the number of entries of its failed_list, and every bucket's total is
\* its success plus its failed.
C38_ReportConsistent ==
    report # NoReport =>
        /\ ReportRead.failed_files = Len(ReportRead.failed_list)
        /\ \A b \in Buckets :
              ReportRead.bucket_stats[b].total =
                  ReportRead.bucket_stats[b].success + ReportRead.bucket_stats[b].failed

\* the workers that have taken a task and not yet marked it done
HoldingTask == {w \in Workers : wtask[w] # NoTask}

\* the items put and not marked done that are neither on the queue nor in a
\* worker's hands
Unaccounted == unfinished_tasks - Len(task_queue) - Cardinality(HoldingTask)

\* the main thread has put the None sentinels
SentinelsPut == mpc \in {"join", "report", "done", "exit"}

\* C39: the queue accounting is balanced.  task_done is never called more
\* often than items were put; every transfer task that was put is on the
\* queue, in the hands of the worker that took it, or marked done once (only
\* sentinels taken by workers stay unmarked); and without cancellation the
\* join returns with every enqueued task taken once and counted as processed.
C39_QueueBalanced ==
    /\ [](unfinished_tasks >= 0)
    /\ [](\A t \in AllTasks : get_count[t] <= 1)
    /\ [](IF SentinelsPut THEN Unaccounted \in 0..Cardinality(Workers)
                          ELSE Unaccounted = 0)
    /\ [][(mpc = "wait" /\ mpc' = "join" /\ ~exit_flag) =>
             /\ unfinished_tasks = 0
             /\ processed_files = Len(all_files_to_migrate)
             /\ \A i \in 1..Len(all_files_to_migrate) :
                   get_count[all_files_to_migrate[i]] = 1]_vars

\* a run without cancellation in which every task was processed, one of them
\* through the except block, and the sentinels are on the queue
C39_Witness ==
    /\ mpc = "join" /\ ~exit_flag
    /\ processed_files = MaxObjs
    /\ success_files + failed_files < processed_files
    /\ unfinished_tasks = Cardinality(Workers)

(***************************************************************************)
(* Claims about the single-bucket mode.                                    *)
(***************************************************************************)
\* the worker that took the task has finished with it
Finished(t) == get_count[t] = 1 /\ \A w \in Workers : wtask[w] # t

\* C40: in single-bucket mode, with no stop requested, every object that was
\* put on the queue and that a worker has finished with went through
\* migrate_file or migrate_file_stream, which recorded its outcome.
C40_SingleBucketTransfers ==
    (bucket_mappings = << >> /\ ~exit_flag) =>
        \A t \in AllTasks :
            Finished(t) => log_entries[<<BucketOf(t), t.key>>] # << >>

====
